---- MODULE Spec2Model ----
(***************************************************************************)
(* Model of the expenses-audit program: the normalisation helpers of       *)
(* app/utils.py, the six detectors of app/auditor.py, and the shared       *)
(* record list (state.ROWS) that the CLI and the web layer hand to them.   *)
(*                                                                         *)
(* Representation.                                                         *)
(*   - A Python str is a sequence of characters; a character is a          *)
(*     one-character string, and a non-ASCII character is written by its   *)
(*     code point ("U+2013" is the en dash).                               *)
(*   - None is the one-element sequence <<"None">>; a Python int n stored  *)
(*     in a dict is <<"int">> followed by the decimal digits of n.  Both   *)
(*     tags are longer than one character, so they are never equal to a    *)
(*     str.                                                                *)
(*   - A dict is a function from its keys (column names) to values; a      *)
(*     column that is absent is outside its DOMAIN.                        *)
(*   - Objects live in heap, indexed by object identity; lists hold        *)
(*     identities, so aliasing and in-place mutation are visible.          *)
(***************************************************************************)
EXTENDS Integers, Sequences, FiniteSets, TLC

\* ----------------------------------------------------------------------
\* Bounds of the model
\* ----------------------------------------------------------------------
MaxRows == 2
MaxDupRows == 4
MaxPermRows == 4

\* ----------------------------------------------------------------------
\* Characters and Python str primitives
\* ----------------------------------------------------------------------
None == <<"None">>

UpperSeq == <<"A","B","C","D","E","F","G","H","I","J","K","L","M",
              "N","O","P","Q","R","S","T","U","V","W","X","Y","Z">>
LowerSeq == <<"a","b","c","d","e","f","g","h","i","j","k","l","m",
              "n","o","p","q","r","s","t","u","v","w","x","y","z">>
DigitSeq == <<"0","1","2","3","4","5","6","7","8","9">>

IndexOf(c, s) == CHOOSE i \in 1..Len(s) : s[i] = c
InSeq(c, s) == \E i \in 1..Len(s) : s[i] = c


\* unicodedata.normalize("NFKC", c) on one character: a sequence of characters
NFKC(c) ==
    CASE c = "U+FF21" -> <<"A">>
      [] c = "U+FF41" -> <<"a">>
      [] c = "U+00A0" -> <<" ">>
      [] c = "U+2011" -> <<"U+2010">>
      [] c = "U+FF0D" -> <<"-">>
      [] c = "U+FE63" -> <<"-">>
      [] c = "U+00B2" -> <<"2">>
      [] c = "U+FB01" -> <<"f", "i">>
      [] c = "U+FE58" -> <<"U+2014">>
      [] OTHER -> <<c>>

\* _DASH_MAP: the dash-like code points that translate to "-"
DashChars == {"U+2010", "-", "U+2012", "U+2013", "U+2014", "U+2015",
              "U+FE58", "U+FE63", "U+FF0D"}
DashMap(c) == IF c \in DashChars THEN "-" ELSE c

\* what str.strip() removes
IsSpace(c) == c \in {" ", "U+00A0"}

RECURSIVE LStrip(_)
LStrip(s) == IF s # <<>> /\ IsSpace(Head(s)) THEN LStrip(Tail(s)) ELSE s
RECURSIVE RStrip(_)
RStrip(s) == IF s # <<>> /\ IsSpace(s[Len(s)])
             THEN RStrip(SubSeq(s, 1, Len(s) - 1)) ELSE s
Strip(s) == RStrip(LStrip(s))

\* s.replace(c, "")
RECURSIVE Remove(_, _)
Remove(s, c) == IF s = <<>> THEN <<>>
                ELSE IF Head(s) = c THEN Remove(Tail(s), c)
                ELSE <<Head(s)>> \o Remove(Tail(s), c)

RECURSIVE FlatMapNFKC(_)
FlatMapNFKC(s) == IF s = <<>> THEN <<>> ELSE NFKC(Head(s)) \o FlatMapNFKC(Tail(s))

\* tuple / str comparison of Python: lexicographic, by code point
CharOrder == <<" ", "$", "(", ")", "+", ",", "-", ".", "/",
               "0","1","2","3","4","5","6","7","8","9", ":",
               "A","B","C","D","E","F","G","H","I","J","K","L","M",
               "N","O","P","Q","R","S","T","U","V","W","X","Y","Z", "_",
               "a","b","c","d","e","f","g","h","i","j","k","l","m",
               "n","o","p","q","r","s","t","u","v","w","x","y","z",
               "U+00A0", "U+00B2", "U+0660", "U+2010", "U+2011", "U+2012",
               "U+2013", "U+2014", "U+2015", "U+FB01", "U+FE58", "U+FE63",
               "U+FF0D", "U+FF21", "U+FF41">>
Chars == {CharOrder[i] : i \in 1..Len(CharOrder)}
OrdOf == [c \in Chars |-> IndexOf(c, CharOrder)]
Ord(c) == OrdOf[c]

\* str.lower() on one character
LowerOf == [c \in Chars |->
              IF InSeq(c, UpperSeq) THEN LowerSeq[IndexOf(c, UpperSeq)]
              ELSE IF c = "U+FF21" THEN "U+FF41"
              ELSE c]
ToLower(c) == LowerOf[c]

RECURSIVE StrLess(_, _)
StrLess(a, b) ==
    IF b = <<>> THEN FALSE
    ELSE IF a = <<>> THEN TRUE
    ELSE IF Head(a) = Head(b) THEN StrLess(Tail(a), Tail(b))
    ELSE Ord(Head(a)) < Ord(Head(b))

IsStr(v) == \A i \in 1..Len(v) : v[i] \in Chars

\* str(n) for a natural number
RECURSIVE NatToStr(_)
NatToStr(n) == IF n < 10 THEN <<DigitSeq[n + 1]>>
               ELSE NatToStr(n \div 10) \o <<DigitSeq[(n % 10) + 1]>>

IntVal(n) == <<"int">> \o NatToStr(n)

\* str(v) for the values a dict can hold
PyStr(v) == IF v = None THEN <<"N","o","n","e">>
            ELSE IF v # <<>> /\ v[1] = "int" THEN Tail(v)
            ELSE v

\* ----------------------------------------------------------------------
\* app/utils.py: normalize_text
\* ----------------------------------------------------------------------
MapSeq(s, F(_)) == [i \in 1..Len(s) |-> F(s[i])]

normalize_text(s) ==
    IF s = None THEN <<>>
    ELSE LET s1 == PyStr(s)
             s2 == FlatMapNFKC(s1)
             s3 == MapSeq(s2, DashMap)
         IN  MapSeq(Strip(s3), ToLower)

\* ----------------------------------------------------------------------
\* Python float().  A parsed float is one of
\*   NoValue           float() raised ValueError
\*   NaN               nan
\*   [neg, inf]        +inf / -inf
\*   [neg, mag]        a number written to the thousandth and below 10^6: its
\*                     sign and its magnitude in units of 10^-FracDigits (the
\*                     decimal the text denotes; the binary double nearest to
\*                     it is accounted for where it matters, see DoubleErrSign)
\*   [neg, ip, fp]     any other number: the double float() rounds the text
\*                     to, by the decimal digits of its integer part (no
\*                     leading zero) and of its fraction (no trailing zero);
\*                     every double has a finite decimal expansion.
\* ----------------------------------------------------------------------
RECURSIVE Pow(_, _)
Pow(b, n) == IF n = 0 THEN 1 ELSE b * Pow(b, n - 1)

\* amounts are represented to the thousandth
Scale == 10 * 10 * 10
FracDigits == CHOOSE n \in 0..9 : Pow(10, n) = Scale

\* integer digits of the numbers kept as [neg, mag]
GridDigits == 2 * FracDigits

NoValue == [none |-> TRUE]
NaN == [nan |-> TRUE]
Infinity(neg) == [neg |-> neg, inf |-> TRUE]

IsNaN(x) == "nan" \in DOMAIN x
IsInf(x) == "inf" \in DOMAIN x
IsGrid(x) == "mag" \in DOMAIN x
IsDec(x) == "ip" \in DOMAIN x

\* characters float() and int() read as a decimal digit (category Nd)
IsDecimal(c) == InSeq(c, DigitSeq) \/ c = "U+0660"
DigitVal(c) == IF c = "U+0660" THEN 0 ELSE IndexOf(c, DigitSeq) - 1

AllDecimal(s) == \A i \in 1..Len(s) : IsDecimal(s[i])

RECURSIVE DigitsValue(_)
DigitsValue(s) == IF s = <<>> THEN 0
                  ELSE DigitsValue(SubSeq(s, 1, Len(s) - 1)) * 10 + DigitVal(s[Len(s)])

PadRight(s, n) == [i \in 1..n |-> IF i <= Len(s) THEN s[i] ELSE "0"]

\* decimal digit strings: the ASCII digits of any decimal digits, zeros
AsciiDigits(s) == [i \in 1..Len(s) |-> DigitSeq[DigitVal(s[i]) + 1]]
Zeros(n) == [i \in 1..n |-> "0"]
AllZeros(s) == \A i \in 1..Len(s) : s[i] = "0"
FirstDigit(s) == CHOOSE i \in 1..Len(s) : s[i] # "0" /\ \A j \in 1..(i - 1) : s[j] = "0"
LastDigit(s) == CHOOSE i \in 1..Len(s) : s[i] # "0" /\ \A j \in (i + 1)..Len(s) : s[j] = "0"
NoLeadingZeros(s) == IF AllZeros(s) THEN <<>> ELSE SubSeq(s, FirstDigit(s), Len(s))
NoTrailingZeros(s) == IF AllZeros(s) THEN <<>> ELSE SubSeq(s, 1, LastDigit(s))

\* digit strings in the order of Python's str: s < t
DigitsLess(s, t) ==
    \E i \in 1..Len(t) :
        /\ i > Len(s) \/ DigitVal(s[i]) < DigitVal(t[i])
        /\ \A j \in 1..(i - 1) : j <= Len(s) /\ s[j] = t[j]

\* the greatest decimal exponent float() is given here; a longer one is as
\* good as this one (the result is 0 or inf either way)
ExpCap == 9999
ExpValue(digits) == IF Len(NoLeadingZeros(digits)) > 4 THEN ExpCap
                    ELSE DigitsValue(digits)

\* a magnitude by its decimal digits
Split(digits, il) ==
    [ip |-> NoLeadingZeros(SubSeq(digits, 1, il)),
     fp |-> NoTrailingZeros(SubSeq(digits, il + 1, Len(digits)))]
One == [ip |-> <<"1">>, fp |-> <<>>]

\* 2 * a and a / 2, digit by digit: the carry into a place is set by the
\* digit to its right (from 5 on), the remainder by the digit to its left (odd)
TwiceDigits(d) ==
    [i \in 1..Len(d) |->
        DigitSeq[((2 * DigitVal(d[i])) % 10)
                 + (IF i < Len(d) /\ DigitVal(d[i + 1]) >= 5 THEN 1 ELSE 0) + 1]]
HalfDigits(d) ==
    [i \in 1..Len(d) |->
        DigitSeq[((DigitVal(d[i])
                   + (IF i > 1 /\ DigitVal(d[i - 1]) % 2 = 1 THEN 10 ELSE 0)) \div 2) + 1]]
Twice(a) == Split(TwiceDigits(<<"0">> \o a.ip \o a.fp), Len(a.ip) + 1)
Halved(a) == Split(HalfDigits(a.ip \o a.fp \o <<"0">>), Len(a.ip))

\* a * 2^k, one binary place at a time
DigitSet == {DigitSeq[i] : i \in 1..Len(DigitSeq)}
Magnitudes == [ip : Seq(DigitSet), fp : Seq(DigitSet)]
ShiftedBy[t \in [a : Magnitudes, k : Int]] ==
    IF t.k = 0 THEN t.a
    ELSE IF t.k = 1 THEN Twice(t.a)
    ELSE IF t.k = -1 THEN Halved(t.a)
    ELSE ShiftedBy[[a |-> ShiftedBy[[a |-> t.a, k |-> t.k \div 2]], k |-> t.k - (t.k \div 2)]]
Shifted(a, k) == ShiftedBy[[a |-> [ip |-> a.ip, fp |-> a.fp], k |-> k]]

\* integers by their digits: s < t
IntLess(s, t) == IF Len(s) # Len(t) THEN Len(s) < Len(t) ELSE DigitsLess(s, t)

\* digits + 1
RECURSIVE IncDigits(_)
IncDigits(s) ==
    IF s = <<>> THEN <<"1">>
    ELSE IF s[Len(s)] = "9" THEN IncDigits(SubSeq(s, 1, Len(s) - 1)) \o <<"0">>
    ELSE SubSeq(s, 1, Len(s) - 1) \o <<DigitSeq[DigitVal(s[Len(s)]) + 2]>>

\* IEEE 754 binary64: 53 significant bits, the least place 2^-1074, values
\* from 2^1024 on are inf
MantissaBits == 53
LeastPlace == 1074
TopPlace == 1024
MantissaTop == Shifted(One, MantissaBits).ip
MantissaLow == Shifted(One, MantissaBits - 1).ip

\* y = a * 2^k brought into [2^52, 2^53), or to the least place
InRange[t \in [y : Magnitudes, k : Int]] ==
    IF ~IntLess(t.y.ip, MantissaTop) THEN InRange[[y |-> Halved(t.y), k |-> t.k - 1]]
    ELSE IF IntLess(t.y.ip, MantissaLow) /\ t.k < LeastPlace
    THEN InRange[[y |-> Twice(t.y), k |-> t.k + 1]]
    ELSE t
ToMantissa(y, k) == InRange[[y |-> [ip |-> y.ip, fp |-> y.fp], k |-> k]]

\* y rounded to an integer, ties to even
IsOddDigits(s) == s # <<>> /\ DigitVal(s[Len(s)]) % 2 = 1
NearestInt(y) ==
    IF y.fp = <<>> \/ DigitVal(y.fp[1]) < 5 THEN y.ip
    ELSE IF DigitVal(y.fp[1]) > 5 \/ Len(y.fp) > 1 \/ IsOddDigits(y.ip) THEN IncDigits(y.ip)
    ELSE y.ip

\* the double m * 2^-k
Signed3(neg, a) == [neg |-> neg, ip |-> a.ip, fp |-> a.fp]
FromMantissa(neg, m, k) ==
    IF m = <<>> THEN [neg |-> neg, mag |-> 0]
    ELSE IF MantissaBits - k > TopPlace \/ (MantissaBits - k = TopPlace /\ m = MantissaTop)
    THEN Infinity(neg)
    ELSE Signed3(neg, Shifted([ip |-> m, fp |-> <<>>], 0 - k))
Mantissa(neg, t) == FromMantissa(neg, NearestInt(t.y), t.k)

\* a first shift towards [2^52, 2^53) that falls short of it: 3.3 binary
\* places for each decimal place (log2(10) = 3.32...)
LeadingZeros(s) == Len(s) - Len(NoLeadingZeros(s))
Lesser(x, y) == IF x > y THEN y ELSE x
FirstShift(a) ==
    IF Len(a.ip) > 17 THEN 0 - (((Len(a.ip) - 17) * 33) \div 10)
    ELSE IF a.ip = <<>> THEN Lesser(LeastPlace, (LeadingZeros(a.fp) * 33) \div 10)
    ELSE 0

\* the double nearest to the decimal a
Rounded(neg, a) ==
    IF a.ip = <<>> /\ a.fp = <<>> THEN [neg |-> neg, mag |-> 0]
    ELSE Mantissa(neg, ToMantissa(Shifted(a, FirstShift(a)), FirstShift(a)))

\* the number with integer digits ip and fraction digits fp
Number(neg, ip, fp) ==
    IF Len(fp) <= FracDigits /\ Len(ip) <= GridDigits
    THEN [neg |-> neg,
          mag |-> DigitsValue(ip) * Scale + DigitsValue(PadRight(fp, FracDigits))]
    ELSE Rounded(neg, [ip |-> ip, fp |-> fp])

\* 0.sig * 10^q, sig without leading and trailing zeros; beyond 10^310 it is
\* inf and below 10^-330 it is 0
MaxPoint == 310
MinPoint == -330
Place(neg, sig, q) ==
    IF sig = <<>> \/ q < MinPoint THEN Number(neg, <<>>, <<>>)
    ELSE IF q > MaxPoint THEN Infinity(neg)
    ELSE IF q <= 0 THEN Number(neg, <<>>, Zeros(0 - q) \o sig)
    ELSE IF q >= Len(sig) THEN Number(neg, sig \o Zeros(q - Len(sig)), <<>>)
    ELSE Number(neg, SubSeq(sig, 1, q), SubSeq(sig, q + 1, Len(sig)))
PlacedAt[t \in BOOLEAN \X Seq(DigitSet) \X Int] == Place(t[1], t[2], t[3])
Placed(neg, sig, q) == PlacedAt[<<neg, sig, q>>]

\* digits with the decimal point after the first p of them
Pointed(neg, digits, p) ==
    Placed(neg, NoTrailingZeros(NoLeadingZeros(digits)),
           p - (Len(digits) - Len(NoLeadingZeros(digits))))

\* ip.fp * 10^e
Scaled(neg, ip, fp, e) == Pointed(neg, AsciiDigits(ip \o fp), Len(ip) + e)

\* the exponent part: [sign] digits
ExpSigned(ex) == ex # <<>> /\ ex[1] \in {"+", "-"}
ExpDigits(ex) == IF ExpSigned(ex) THEN Tail(ex) ELSE ex
ExpOk(ex) == ExpDigits(ex) # <<>> /\ AllDecimal(ExpDigits(ex))
ExpOf(ex) == IF ex[1] = "-" THEN 0 - ExpValue(ExpDigits(ex)) ELSE ExpValue(ExpDigits(ex))

\* the mantissa: digits [. digits] or . digits
PointsOf(m) == {i \in 1..Len(m) : m[i] = "."}
PointOf(m) == IF PointsOf(m) = {} THEN Len(m) + 1 ELSE CHOOSE i \in PointsOf(m) : TRUE
IntPart(m) == SubSeq(m, 1, PointOf(m) - 1)
FracPart(m) == SubSeq(m, PointOf(m) + 1, Len(m))
MantissaOk(m) ==
    /\ Cardinality(PointsOf(m)) <= 1
    /\ AllDecimal(IntPart(m)) /\ AllDecimal(FracPart(m))
    /\ Len(IntPart(m)) + Len(FracPart(m)) >= 1

\* mantissa [(e|E) exponent]
ExpMarks(t) == {i \in 1..Len(t) : t[i] \in {"e", "E"}}
ExpMark(t) == IF ExpMarks(t) = {} THEN Len(t) + 1
              ELSE CHOOSE i \in ExpMarks(t) : \A j \in ExpMarks(t) : i <= j
\* mantissa m, and exponent ex when the text has an exponent mark
FloatOfParts(neg, m, marked, ex) ==
    IF ~MantissaOk(m) THEN NoValue
    ELSE IF ~marked THEN Scaled(neg, IntPart(m), FracPart(m), 0)
    ELSE IF ~ExpOk(ex) THEN NoValue
    ELSE Scaled(neg, IntPart(m), FracPart(m), ExpOf(ex))
FloatParts[p \in BOOLEAN \X Seq(STRING) \X BOOLEAN \X Seq(STRING)] ==
    FloatOfParts(p[1], p[2], p[3], p[4])
FloatNumber(neg, t) ==
    FloatParts[<<neg, SubSeq(t, 1, ExpMark(t) - 1), ExpMarks(t) # {},
                 SubSeq(t, ExpMark(t) + 1, Len(t))>>]

\* "_" may stand between two digits only
Grouped(s) == \A i \in 1..Len(s) :
    s[i] = "_" => i > 1 /\ i < Len(s) /\ IsDecimal(s[i - 1]) /\ IsDecimal(s[i + 1])

InfWords == {<<"i","n","f">>, <<"i","n","f","i","n","i","t","y">>}
NanWord == <<"n","a","n">>
AsciiLower(c) == IF InSeq(c, UpperSeq) THEN LowerSeq[IndexOf(c, UpperSeq)] ELSE c

FloatBody(neg, body) ==
    IF Len(body) \in {3, 8} /\ MapSeq(body, AsciiLower) \in InfWords THEN Infinity(neg)
    ELSE IF Len(body) = 3 /\ MapSeq(body, AsciiLower) = NanWord THEN NaN
    ELSE IF ~Grouped(body) THEN NoValue
    ELSE FloatNumber(neg, Remove(body, "_"))

\* float() of a text without blanks around it: [sign] body
FloatOf[s \in Seq(STRING)] ==
    IF s # <<>> /\ Head(s) \in {"+", "-"}
    THEN FloatBody(Head(s) = "-", Tail(s))
    ELSE FloatBody(FALSE, s)

\* float(raw): NoValue stands for ValueError
PyFloat(raw) == FloatOf[Strip(raw)]

\* floor(log2(mag / Scale)) for mag > 0
RECURSIVE Log2Up(_, _)
Log2Up(mag, e) == IF Pow(2, e + 1) * Scale <= mag THEN Log2Up(mag, e + 1) ELSE e
RECURSIVE Log2Down(_, _)
Log2Down(mag, n) == IF mag * Pow(2, n) >= Scale THEN n ELSE Log2Down(mag, n + 1)
FloorLog2(mag) == IF mag >= Scale THEN Log2Up(mag, 0) ELSE 0 - Log2Down(mag, 1)

RECURSIVE PowMod(_, _, _)
PowMod(b, n, m) == IF n = 0 THEN 1 % m ELSE (b * PowMod(b, n - 1, m)) % m

\* mag * 2^k mod Scale, signed into (-Scale/2, Scale/2]: the distance, in
\* units of 2^-k / Scale, from the decimal mag/Scale up to the double that
\* float() rounds it to (k = 52 - exponent, so that doubles are integers).
DoubleShift(mag) == 52 - FloorLog2(mag)
DoubleErr(mag) ==
    IF mag = 0 THEN 0
    ELSE LET rem == ((mag % Scale) * PowMod(2, DoubleShift(mag), Scale)) % Scale
         IN  IF 2 * rem <= Scale THEN 0 - rem ELSE Scale - rem
DoubleErrSign(mag) ==
    LET e == DoubleErr(mag) IN IF e < 0 THEN -1 ELSE IF e > 0 THEN 1 ELSE 0

\* f"{x:.2f}": the double x rounded to two decimals, ties of the exact binary
\* value to even
Hundredths(mag) ==
    LET unit == Scale \div 100
        q == mag \div unit
        r == mag % unit
    IN  IF 2 * r < unit THEN q
        ELSE IF 2 * r > unit THEN q + 1
        ELSE IF DoubleErrSign(mag) < 0 THEN q
        ELSE IF DoubleErrSign(mag) > 0 THEN q + 1
        ELSE IF q % 2 = 0 THEN q ELSE q + 1

Abs(x) == IF x < 0 THEN 0 - x ELSE x

\* ----------------------------------------------------------------------
\* Arithmetic of doubles on their decimal digits
\* ----------------------------------------------------------------------
NatDigits(n) == IF n = 0 THEN <<>> ELSE NatToStr(n)
PadLeft(s, n) == Zeros(n - Len(s)) \o s

\* the decimal of a [neg, mag] as [neg, ip, fp]
DecOf(x) ==
    IF IsDec(x) THEN x
    ELSE [neg |-> x.neg, ip |-> NatDigits(x.mag \div Scale),
          fp |-> NoTrailingZeros(PadLeft(NatToStr(x.mag % Scale), FracDigits))]

DecIsZero(a) == a.ip = <<>> /\ a.fp = <<>>

\* |a| < |b|
MagLess(a, b) ==
    IF Len(a.ip) # Len(b.ip) THEN Len(a.ip) < Len(b.ip)
    ELSE IF a.ip # b.ip THEN DigitsLess(a.ip, b.ip)
    ELSE DigitsLess(a.fp, b.fp)

\* a < b
DecLess(a, b) ==
    IF DecIsZero(a) /\ DecIsZero(b) THEN FALSE
    ELSE IF a.neg # b.neg THEN a.neg
    ELSE IF a.neg THEN MagLess(b, a)
    ELSE MagLess(a, b)

\* digit strings of one length.  a - b for a >= b: a place borrows when the
\* digits to its right are less in a than in b.  a + b: a place is carried
\* into when the digits to its right add up to 10 and more
Borrows(a, b, i) ==
    \E j \in (i + 1)..Len(a) :
        /\ DigitVal(a[j]) < DigitVal(b[j])
        /\ \A m \in (i + 1)..(j - 1) : a[m] = b[m]
SubDigits(a, b) ==
    [i \in 1..Len(a) |->
        DigitSeq[((DigitVal(a[i]) - DigitVal(b[i])
                   - (IF Borrows(a, b, i) THEN 1 ELSE 0) + 10) % 10) + 1]]
Carries(a, b, i) ==
    \E j \in (i + 1)..Len(a) :
        /\ DigitVal(a[j]) + DigitVal(b[j]) >= 10
        /\ \A m \in (i + 1)..(j - 1) : DigitVal(a[m]) + DigitVal(b[m]) = 9
AddDigits(a, b) ==
    (IF Carries(a, b, 0) THEN <<"1">> ELSE <<"0">>)
    \o [i \in 1..Len(a) |->
           DigitSeq[((DigitVal(a[i]) + DigitVal(b[i])
                      + (IF Carries(a, b, i) THEN 1 ELSE 0)) % 10) + 1]]

\* the digits of a on il integer and fl fraction places
Aligned(a, il, fl) == PadLeft(a.ip, il) \o PadRight(a.fp, fl)

\* digits with fl fraction places as a magnitude
Magnitude(digits, fl) ==
    [neg |-> FALSE,
     ip |-> NoLeadingZeros(SubSeq(digits, 1, Len(digits) - fl)),
     fp |-> NoTrailingZeros(SubSeq(digits, Len(digits) - fl + 1, Len(digits)))]

Longer(s, t) == IF Len(s) > Len(t) THEN Len(s) ELSE Len(t)

\* |a| + |b| and |a| - |b| for |a| >= |b|
MagSum(a, b) ==
    Magnitude(AddDigits(Aligned(a, Longer(a.ip, b.ip), Longer(a.fp, b.fp)),
                        Aligned(b, Longer(a.ip, b.ip), Longer(a.fp, b.fp))),
              Longer(a.fp, b.fp))
MagDiff(a, b) ==
    Magnitude(SubDigits(Aligned(a, Longer(a.ip, b.ip), Longer(a.fp, b.fp)),
                        Aligned(b, Longer(a.ip, b.ip), Longer(a.fp, b.fp))),
              Longer(a.fp, b.fp))

\* the double of a number, as [neg, ip, fp]
Exact(x) == IF IsGrid(x) THEN DecOf(Rounded(x.neg, DecOf(x))) ELSE x
UnitsExact(v) == Exact([neg |-> v < 0, mag |-> Abs(v)])

\* a - b and |a - b| in doubles, for doubles a and b
DiffOf(a, b) ==
    IF a.neg # b.neg THEN Rounded(a.neg, MagSum(a, b))
    ELSE IF MagLess(a, b) THEN Rounded(~a.neg, MagDiff(b, a))
    ELSE IF MagLess(b, a) THEN Rounded(a.neg, MagDiff(a, b))
    ELSE [neg |-> FALSE, mag |-> 0]
GapOf(a, b) ==
    IF IsInf(DiffOf(a, b)) THEN Infinity(FALSE)
    ELSE [neg |-> FALSE, ip |-> DecOf(DiffOf(a, b)).ip, fp |-> DecOf(DiffOf(a, b)).fp]

\* rounding to two decimals goes up: by the digits after the second, a tie
\* (a lone 5) by the side the double lies on of the decimal (errsign; 0 for
\* the digits of the double itself), else to even
RoundsUp(fp, errsign) ==
    IF Len(fp) <= 2 THEN FALSE
    ELSE IF fp[3] # "5" THEN DigitVal(fp[3]) > 5
    ELSE IF Len(fp) > 3 THEN TRUE
    ELSE IF errsign # 0 THEN errsign > 0
    ELSE DigitVal(fp[2]) % 2 = 1

\* the digits of the hundredths of a magnitude
HundredthDigits(a, errsign) ==
    IF RoundsUp(a.fp, errsign) THEN IncDigits(a.ip \o PadRight(a.fp, 2))
    ELSE a.ip \o PadRight(a.fp, 2)

\* digits of hundredths as text with two decimals
TwoDecimals(digits) ==
    (IF Len(digits) = 2 THEN <<"0">> ELSE SubSeq(digits, 1, Len(digits) - 2))
    \o <<".">> \o SubSeq(digits, Len(digits) - 1, Len(digits))

InfText == <<"i","n","f">>
SignText(neg) == IF neg THEN <<"-">> ELSE <<>>

\* the values of float()
Floats ==
    {NaN} \cup [neg : BOOLEAN, inf : {TRUE}] \cup [neg : BOOLEAN, mag : Nat]
    \cup [neg : BOOLEAN, ip : Seq(DigitSet), fp : Seq(DigitSet)]

\* hundredths h as text with two decimals
HundredthsText(h) ==
    NatToStr(h \div 100) \o <<".">>
    \o <<DigitSeq[((h \div 10) % 10) + 1], DigitSeq[(h % 10) + 1]>>

\* f"{x:.2f}"
Fixed2Of[x \in Floats] ==
    IF IsNaN(x) THEN NanWord
    ELSE IF IsInf(x) THEN SignText(x.neg) \o InfText
    ELSE IF IsDec(x)
    THEN SignText(x.neg) \o TwoDecimals(HundredthDigits(x, 0))
    ELSE SignText(x.neg) \o HundredthsText(Hundredths(x.mag))
Fixed2(x) == Fixed2Of[x]

\* ----------------------------------------------------------------------
\* app/utils.py: parse_float, normalize_amount
\* ----------------------------------------------------------------------
\* "not s": None, the empty string and the int 0 are falsy
Falsy(s) == s = None \/ s = <<>> \/ s = IntVal(0)

parse_float(s) ==
    IF Falsy(s) THEN NoValue
    ELSE PyFloat(Strip(Remove(Remove(PyStr(s), "$"), ",")))

\* lines 88-91 on the outcome x of float(): "" for ValueError
AmountText[x \in Floats \cup {NoValue}] == IF x = NoValue THEN <<>> ELSE Fixed2(x)

normalize_amount(s) ==
    IF s = None THEN <<>>
    ELSE AmountText[PyFloat(Strip(Remove(Remove(PyStr(s), "$"), ",")))]

\* ----------------------------------------------------------------------
\* Python dict and object primitives
\* ----------------------------------------------------------------------
\* d.get(k) and d.get(k, dflt)
Get(d, k) == IF k \in DOMAIN d THEN d[k] ELSE None
GetOr(d, k, dflt) == IF k \in DOMAIN d THEN d[k] ELSE dflt

\* d[k] = v on a dict value
DictSet(d, k, v) == [x \in DOMAIN d \cup {k} |-> IF x = k THEN v ELSE d[x]]

SetMax(S) == CHOOSE x \in S : \A y \in S : y <= x
NextId(h) == IF DOMAIN h = {} THEN 1 ELSE SetMax(DOMAIN h) + 1

\* mutation (C4): "rec = item" in place of "rec = dict(item)"
CopyDictAliased(h, ref) == [heap |-> h, ref |-> ref]

\* mutation (C5): the copy keeps only the columns that have a value
CopyDictNonEmpty(h, ref) ==
    LET id == NextId(h)
        kept == [k \in {x \in DOMAIN h[ref] : ~Falsy(h[ref][x])} |-> h[ref][k]]
    IN  [heap |-> [x \in DOMAIN h \cup {id} |-> IF x = id THEN kept ELSE h[x]],
         ref  |-> id]

\* dict(item): a new object with the same keys and values
CopyDict(h, ref) ==
    LET id == NextId(h)
    IN  [heap |-> [x \in DOMAIN h \cup {id} |-> IF x = id THEN h[ref] ELSE h[x]],
         ref  |-> id]

\* rec[k] = v on the object ref
SetItem(h, ref, k, v) == [h EXCEPT ![ref] = DictSet(@, k, v)]

\* comparison of Python tuples of str
RECURSIVE TupleLess(_, _)
TupleLess(a, b) ==
    IF b = <<>> THEN FALSE
    ELSE IF a = <<>> THEN TRUE
    ELSE IF Head(a) = Head(b) THEN TupleLess(Tail(a), Tail(b))
    ELSE StrLess(Head(a), Head(b))

\* list.sort(key=...): stable, ascending; keyed[i] = [ref, key]
RECURSIVE InsertSorted(_, _)
InsertSorted(sorted, x) ==
    IF sorted = <<>> THEN <<x>>
    ELSE IF TupleLess(x.key, sorted[Len(sorted)].key)
         THEN Append(InsertSorted(SubSeq(sorted, 1, Len(sorted) - 1), x), sorted[Len(sorted)])
         ELSE Append(sorted, x)
RECURSIVE StableSort(_)
StableSort(keyed) ==
    IF keyed = <<>> THEN <<>>
    ELSE InsertSorted(StableSort(SubSeq(keyed, 1, Len(keyed) - 1)), keyed[Len(keyed)])

\* ----------------------------------------------------------------------
\* app/auditor.py: find_duplicate_invoices
\* ----------------------------------------------------------------------
merchant_col == "merchant"
invoice_col == "invoice_no"
amount_col == "amount_usd"

ReasonDuplicate == <<"d","u","p","l","i","c","a","t","e">>

\* the grouping key of lines 21-27
DupKey(r, include_merchant) ==
    LET inv == normalize_text(Get(r, invoice_col))
        amt == normalize_amount(Get(r, amount_col))
    IN  IF include_merchant
        THEN <<normalize_text(Get(r, merchant_col)), inv, amt>>
        ELSE <<inv, amt>>

\* buckets[key].append(r): buckets in order of first insertion
BucketAdd(b, key, ref) ==
    IF \E i \in 1..Len(b) : b[i].key = key
    THEN LET i == CHOOSE j \in 1..Len(b) : b[j].key = key
         IN  [b EXCEPT ![i].group = Append(@, ref)]
    ELSE Append(b, [key |-> key, group |-> <<ref>>])

RECURSIVE FillBuckets(_, _, _, _)
FillBuckets(h, rows, include_merchant, b) ==
    IF rows = <<>> THEN b
    ELSE FillBuckets(h, Tail(rows), include_merchant,
                     BucketAdd(b, DupKey(h[Head(rows)], include_merchant), Head(rows)))

\* mutation (C1): "len(group) >= 1"
IsDupGroupAny(group) == Len(group) >= 1

\* line 32: len(group) >= 2
IsDupGroup(group) == Len(group) >= 2

\* line 36: len(group)
DupCount(group) == Len(group)

\* lines 34-37 for the item at position i of a group: copy, tag, count, append
EmitItem(st, group, i) ==
    LET c  == CopyDict(st.heap, group[i])
        h1 == SetItem(c.heap, c.ref, "_reason", ReasonDuplicate)
        h2 == SetItem(h1, c.ref, "_dup_count", IntVal(DupCount(group)))
    IN  [heap |-> h2, out |-> Append(st.out, c.ref)]

\* line 33, for the items of one group from position i on
RECURSIVE EmitGroup(_, _, _)
EmitGroup(st, group, i) ==
    IF i > Len(group) THEN st
    ELSE EmitGroup(EmitItem(st, group, i), group, i + 1)

\* lines 31-37
RECURSIVE EmitBuckets(_, _)
EmitBuckets(st, b) ==
    IF b = <<>> THEN st
    ELSE EmitBuckets(IF IsDupGroup(Head(b).group)
                     THEN EmitGroup(st, Head(b).group, 1) ELSE st,
                     Tail(b))

\* mutation (C10): the sort key takes the merchant as written, not normalised
DupSortKeyRaw(x, include_merchant) ==
    << IF include_merchant THEN PyStr(Get(x, merchant_col)) ELSE <<>>,
       normalize_text(Get(x, invoice_col)),
       normalize_amount(Get(x, amount_col)) >>

\* the sort key of lines 39-43
DupSortKey(x, include_merchant) ==
    << IF include_merchant THEN normalize_text(Get(x, merchant_col)) ELSE <<>>,
       normalize_text(Get(x, invoice_col)),
       normalize_amount(Get(x, amount_col)) >>

\* mutation (C2): the final sort is left out
DupSortSkipped(h, dups, include_merchant) == dups

\* lines 39-43: dups.sort(key=...)
DupSort(h, dups, include_merchant) ==
    LET keyed == [i \in 1..Len(dups) |->
                    [ref |-> dups[i], key |-> DupSortKey(h[dups[i]], include_merchant)]]
        sorted == StableSort(keyed)
    IN  [i \in 1..Len(dups) |-> sorted[i].ref]

find_duplicate_invoices(h, rows, include_merchant) ==
    LET buckets == FillBuckets(h, rows, include_merchant, <<>>)
        st == EmitBuckets([heap |-> h, out |-> <<>>], buckets)
    IN  [heap |-> st.heap, out |-> DupSort(st.heap, st.out, include_merchant)]

\* ----------------------------------------------------------------------
\* app/auditor.py: flag_threshold
\* ----------------------------------------------------------------------
ReasonOverLimit == <<"o","v","e","r","_","l","i","m","i","t">>
ReasonNearLimit == <<"n","e","a","r","_","l","i","m","i","t">>

\* the value of a [neg, mag], in units of 1/Scale
Signed(x) == IF x.neg THEN 0 - x.mag ELSE x.mag

\* line 87: amt > limit
IsOverLimit(amt, limit) == amt > limit

\* line 89, left comparison: (limit - buffer) < amt.  limit - buffer is a
\* subtraction of doubles; where its decimal equals the decimal of amt, the
\* doubles themselves are compared.  Whole numbers of this size are doubles
\* and so is their difference, which then equals amt.
LimitLessBufferBelow(amt, limit, buffer) ==
    IF limit - buffer # amt THEN limit - buffer < amt
    ELSE IF limit % Scale = 0 /\ buffer % Scale = 0 THEN FALSE
    ELSE DecLess(DecOf(DiffOf(UnitsExact(limit), UnitsExact(buffer))), UnitsExact(amt))

\* line 89: (limit - buffer) < amt <= limit
IsNearLimit(amt, limit, buffer) ==
    LimitLessBufferBelow(amt, limit, buffer) /\ amt <= limit

\* lines 86-90 for an amount, a limit and a buffer in units of 1/Scale;
\* <<>> stands for reason = None
ThresholdReason(amt, limit, buffer) ==
    IF IsOverLimit(amt, limit) THEN ReasonOverLimit
    ELSE IF IsNearLimit(amt, limit, buffer) THEN ReasonNearLimit
    ELSE <<>>

\* lines 86-90 for a parsed amount: no comparison with nan holds
ReasonOf(x, limit, buffer) ==
    IF IsNaN(x) THEN <<>>
    ELSE IF IsInf(x) THEN (IF x.neg THEN <<>> ELSE ReasonOverLimit)
    ELSE IF IsDec(x)
    THEN IF DecLess(UnitsExact(limit), x) THEN ReasonOverLimit
         ELSE IF DecLess(DecOf(DiffOf(UnitsExact(limit), UnitsExact(buffer))), x)
         THEN ReasonNearLimit
         ELSE <<>>
    ELSE ThresholdReason(Signed(x), limit, buffer)

\* lines 91-94: copy, tag, append
EmitFinding(st, ref, reason) ==
    LET c == CopyDict(st.heap, ref)
    IN  [heap |-> SetItem(c.heap, c.ref, "_reason", reason),
         out  |-> Append(st.out, c.ref)]

RECURSIVE ThresholdLoop(_, _, _, _)
ThresholdLoop(st, rows, limit, buffer) ==
    IF rows = <<>> THEN st
    ELSE LET r == st.heap[Head(rows)]
             amt == parse_float(Get(r, amount_col))
             reason == IF amt = NoValue THEN <<>>
                       ELSE ReasonOf(amt, limit, buffer)
         IN  ThresholdLoop(IF reason # <<>> THEN EmitFinding(st, Head(rows), reason) ELSE st,
                           Tail(rows), limit, buffer)

flag_threshold(h, rows, limit, buffer) ==
    ThresholdLoop([heap |-> h, out |-> <<>>], rows, limit, buffer)

\* ----------------------------------------------------------------------
\* datetime.strptime for the directives %Y, %m, %d and literal separators.
\* A format is a sequence of tokens; the pattern of a directive is the
\* regular expression the library compiles it to, its alternatives tried in
\* order, the first one after which the rest of the format matches winning.
\* ----------------------------------------------------------------------
IsAsciiDigit(c) == InSeq(c, DigitSeq)
CharAt(s, i) == IF i >= 1 /\ i <= Len(s) THEN s[i] ELSE "EOS"
In19(c) == IsAsciiDigit(c) /\ c # "0"

\* candidate lengths of a directive at position pos, in the order of the
\* alternatives of its pattern
FieldLens(tok, s, pos) ==
    LET c1 == CharAt(s, pos)
        c2 == CharAt(s, pos + 1)
        c3 == CharAt(s, pos + 2)
        c4 == CharAt(s, pos + 3)
    IN  CASE tok = "%Y" ->   \* \d\d\d\d
               IF IsDecimal(c1) /\ IsDecimal(c2) /\ IsDecimal(c3) /\ IsDecimal(c4)
               THEN <<4>> ELSE <<>>
          [] tok = "%m" ->   \* 1[0-2]|0[1-9]|[1-9]
               (IF c1 = "1" /\ c2 \in {"0", "1", "2"} THEN <<2>> ELSE <<>>)
               \o (IF c1 = "0" /\ In19(c2) THEN <<2>> ELSE <<>>)
               \o (IF In19(c1) THEN <<1>> ELSE <<>>)
          [] tok = "%d" ->   \* 3[0-1]|[1-2]\d|0[1-9]|[1-9]| [1-9]
               (IF c1 = "3" /\ c2 \in {"0", "1"} THEN <<2>> ELSE <<>>)
               \o (IF c1 \in {"1", "2"} /\ IsDecimal(c2) THEN <<2>> ELSE <<>>)
               \o (IF c1 = "0" /\ In19(c2) THEN <<2>> ELSE <<>>)
               \o (IF In19(c1) THEN <<1>> ELSE <<>>)
               \o (IF c1 = " " /\ In19(c2) THEN <<2>> ELSE <<>>)
          [] OTHER -> IF c1 = tok THEN <<1>> ELSE <<>>

NoMatch == [ok |-> FALSE]

\* match the tokens from ti on against s from pos on; the fields found
RECURSIVE MatchFrom(_, _, _, _, _)
RECURSIVE TryLens(_, _, _, _, _, _)
TryLens(lens, fmt, ti, s, pos, found) ==
    IF lens = <<>> THEN NoMatch
    ELSE LET n == Head(lens)
             text == Remove(SubSeq(s, pos, pos + n - 1), " ")
             f2 == IF fmt[ti] \in {"%Y", "%m", "%d"}
                   THEN [found EXCEPT ![fmt[ti]] = DigitsValue(text)]
                   ELSE found
             m == MatchFrom(fmt, ti + 1, s, pos + n, f2)
         IN  IF m.ok THEN m ELSE TryLens(Tail(lens), fmt, ti, s, pos, found)
MatchFrom(fmt, ti, s, pos, found) ==
    IF ti > Len(fmt) THEN [ok |-> TRUE, end |-> pos, found |-> found]
    ELSE TryLens(FieldLens(fmt[ti], s, pos), fmt, ti, s, pos, found)

IsLeap(y) == (y % 4 = 0) /\ ((y % 100 # 0) \/ (y % 400 = 0))
DaysInMonth(y, m) ==
    IF m = 2 THEN (IF IsLeap(y) THEN 29 ELSE 28)
    ELSE IF m \in {4, 6, 9, 11} THEN 30 ELSE 31
RECURSIVE DaysBeforeMonth(_, _)
DaysBeforeMonth(y, m) == IF m = 1 THEN 0
                         ELSE DaysBeforeMonth(y, m - 1) + DaysInMonth(y, m - 1)

\* date.toordinal(): day 1 is 0001-01-01
Ordinal(y, m, d) ==
    LET y1 == y - 1
    IN  y1 * 365 + (y1 \div 4) - (y1 \div 100) + (y1 \div 400)
        + DaysBeforeMonth(y, m) + d

\* date.weekday(): Monday is 0
Weekday(dt) == (Ordinal(dt.y, dt.m, dt.d) + 6) % 7

\* datetime.strptime(s, fmt); NoValue stands for ValueError
strptime(s, fmt) ==
    LET m == MatchFrom(fmt, 1, s, 1, [x \in {"%Y", "%m", "%d"} |-> 0])
    IN  IF ~m.ok THEN NoValue                       \* does not match format
        ELSE IF m.end # Len(s) + 1 THEN NoValue     \* unconverted data remains
        ELSE LET y == m.found["%Y"]
                 mo == m.found["%m"]
                 d == m.found["%d"]
             IN  IF y < 1 \/ d > DaysInMonth(y, mo) THEN NoValue
                 ELSE [y |-> y, m |-> mo, d |-> d]

\* ----------------------------------------------------------------------
\* app/auditor.py: flag_weekends
\* ----------------------------------------------------------------------
date_col == "expense_date"
date_fmts == << <<"%Y", "-", "%m", "-", "%d">>,
                <<"%m", "/", "%d", "/", "%Y">>,
                <<"%Y", "/", "%m", "/", "%d">> >>
ReasonWeekend == <<"w","e","e","k","e","n","d">>

\* lines 58-64: the first format that parses
RECURSIVE FirstParse(_, _)
FirstParse(s, fmts) ==
    IF fmts = <<>> THEN NoValue
    ELSE LET dt == strptime(s, Head(fmts))
         IN  IF dt # NoValue THEN dt ELSE FirstParse(s, Tail(fmts))

\* a weekend test that takes Sunday only
IsWeekendRecordSundayOnly(r) ==
    LET v == Get(r, date_col)
        s == Strip(IF Falsy(v) THEN <<>> ELSE v)
        dt == FirstParse(s, date_fmts)
    IN  s # <<>> /\ dt # NoValue /\ Weekday(dt) >= 6

\* lines 55-67 for one record
IsWeekendRecord(r) ==
    LET v == Get(r, date_col)
        s == Strip(IF Falsy(v) THEN <<>> ELSE v)
        dt == FirstParse(s, date_fmts)
    IN  s # <<>> /\ dt # NoValue /\ Weekday(dt) >= 5

RECURSIVE WeekendLoop(_, _)
WeekendLoop(st, rows) ==
    IF rows = <<>> THEN st
    ELSE WeekendLoop(IF IsWeekendRecord(st.heap[Head(rows)])
                     THEN EmitFinding(st, Head(rows), ReasonWeekend) ELSE st,
                     Tail(rows))

flag_weekends(h, rows) == WeekendLoop([heap |-> h, out |-> <<>>], rows)

\* ----------------------------------------------------------------------
\* app/auditor.py: calculate_benford_stats
\* ----------------------------------------------------------------------
\* str.isdigit(): the decimal digits and the superscript digits
IsDigitChar(c) == IsDecimal(c) \/ c = "U+00B2"

\* line 111: the characters c with c.isdigit() and c != '0'
RECURSIVE NonzeroDigits(_)
NonzeroDigits(s) ==
    IF s = <<>> THEN <<>>
    ELSE (IF IsDigitChar(Head(s)) /\ Head(s) # "0" THEN <<Head(s)>> ELSE <<>>)
         \o NonzeroDigits(Tail(s))

\* line 110: r.get(amount_col, "")
BenfordText(r) == GetOr(r, amount_col, <<>>)

\* lines 110-113 for one record: which digit it counts under (0: none), or
\* the exception it raises
BenfordStep(r) ==
    LET amt_str == BenfordText(r)
    IN  IF ~IsStr(amt_str) THEN [raise |-> "TypeError"]      \* None is not iterable
        ELSE LET digits == NonzeroDigits(amt_str)
             IN  IF digits = <<>> THEN [digit |-> 0]
                 ELSE IF ~IsDecimal(digits[1]) THEN [raise |-> "ValueError"]  \* int()
                 ELSE IF DigitVal(digits[1]) \notin 1..9 THEN [raise |-> "KeyError"]
                 ELSE [digit |-> DigitVal(digits[1])]

\* mutation (C8): "total_valid += 1" outside the "if digits:" block
BenfordCountEveryRow(acc, digit) ==
    [counts |-> IF digit = 0 THEN acc.counts ELSE [acc.counts EXCEPT ![digit] = @ + 1],
     total  |-> acc.total + 1]

\* lines 112-115: a record with a leading digit adds one to its digit's
\* count and one to total_valid
BenfordCount(acc, digit) ==
    IF digit = 0 THEN acc
    ELSE [counts |-> [acc.counts EXCEPT ![digit] = @ + 1],
          total  |-> acc.total + 1]

\* lines 104-115: the histogram and total_valid, or the first exception
RECURSIVE BenfordLoop(_, _, _)
BenfordLoop(h, rows, acc) ==
    IF rows = <<>> THEN acc
    ELSE LET stp == BenfordStep(h[Head(rows)])
         IN  IF "raise" \in DOMAIN stp THEN stp
             ELSE BenfordLoop(h, Tail(rows), BenfordCount(acc, stp.digit))

\* line 107: log10(1 + 1/d), in units of 10^-8
BenfordProb == <<30103000, 17609126, 12493874, 9691001, 7918125,
                 6694679, 5799195, 5115252, 4575749>>
ProbUnit == 10 * 10 * 10 * 10 * 10 * 10 * 10 * 10

\* n / d rounded to the nearest integer, an exact tie to even
RoundDiv(n, d) ==
    LET q == n \div d
        r == n % d
    IN  IF 2 * r < d THEN q ELSE IF 2 * r > d THEN q + 1
        ELSE IF q % 2 = 0 THEN q ELSE q + 1

SeqMax(s) == CHOOSE x \in {s[i] : i \in 1..Len(s)} : \A y \in {s[i] : i \in 1..Len(s)} : y <= x

\* |actual_freq - expected_freq| for digit d, in units of 10^-8 / total
Deviation(counts, total, d) == Abs(counts[d] * ProbUnit - BenfordProb[d] * total)

ErrorText == <<"N","o"," ","v","a","l","i","d"," ","a","m","o","u","n","t","s"," ","f","o","u","n","d">>

\* lines 117-142.  Percentages are in hundredths of a percent (the two
\* decimals round() keeps).
BenfordReport(counts, total) ==
    IF total = 0 THEN "error" :> ErrorText
    ELSE LET maxdev == SeqMax([d \in 1..9 |-> Deviation(counts, total, d)])
         IN  [total_analyzed |-> total,
              stats |-> [d \in 1..9 |->
                  [digit |-> d,
                   actual_count |-> counts[d],
                   actual_pct |-> RoundDiv(counts[d] * 10000, total),
                   expected_pct |-> RoundDiv(BenfordProb[d], ProbUnit \div 10000),
                   diff_pct |-> RoundDiv(Deviation(counts, total, d),
                                         total * (ProbUnit \div 10000))]],
              is_suspicious |-> maxdev > 5 * (ProbUnit \div 100) * total,
              max_deviation_pct |-> RoundDiv(maxdev, total * (ProbUnit \div 10000))]

calculate_benford_stats(h, rows) ==
    LET l == BenfordLoop(h, rows, [counts |-> [d \in 1..9 |-> 0], total |-> 0])
    IN  IF "raise" \in DOMAIN l THEN [kind |-> "raise", exc |-> l.raise]
        ELSE [kind |-> "dict", value |-> BenfordReport(l.counts, l.total)]

\* ----------------------------------------------------------------------
\* app/auditor.py: flag_suspicious_keywords
\* ----------------------------------------------------------------------
SUSPICIOUS_TERMS == <<
    <<"c","a","s","h">>,
    <<"g","i","f","t">>,
    <<"p","a","r","t","y">>,
    <<"c","a","s","i","n","o">>,
    <<"s","p","a">>,
    <<"p","e","r","s","o","n","a","l">>,
    <<"m","i","s","c">>,
    <<"v","a","r","i","o","u","s">>,
    <<"r","o","u","n","d">>,
    <<"f","a","c","i","l","i","t","a","t","i","o","n">>,
    <<"c","o","n","s","u","l","t","i","n","g">> >>

\* the text of a column name
ColumnText == [merchant |-> <<"m","e","r","c","h","a","n","t">>,
               category |-> <<"c","a","t","e","g","o","r","y">>,
               employee |-> <<"e","m","p","l","o","y","e","e">>]
check_cols == <<"merchant", "category", "employee">>
ReasonSuspicious == <<"s","u","s","p","i","c","i","o","u","s","_","k","e","y","w","o","r","d">>

\* "term in val"
Contains(val, term) ==
    \E i \in 0..(Len(val) - Len(term)) : SubSeq(val, i + 1, i + Len(term)) = term

\* line 163: f"{term} (in {col})"
HitText(term, col) == term \o <<" ", "(", "i", "n", " ">> \o ColumnText[col] \o <<")">>

\* a scan that leaves a column at its first hit
TermHitsFirstOnly(val, col, terms) ==
    IF \A i \in 1..Len(terms) : ~Contains(val, terms[i]) THEN <<>>
    ELSE <<HitText(terms[CHOOSE i \in 1..Len(terms) :
                             /\ Contains(val, terms[i])
                             /\ \A j \in 1..(i - 1) : ~Contains(val, terms[j])], col)>>

\* lines 161-163 for one column: the hits in vocabulary order
RECURSIVE TermHits(_, _, _)
TermHits(val, col, terms) ==
    IF terms = <<>> THEN <<>>
    ELSE (IF Contains(val, Head(terms)) THEN <<HitText(Head(terms), col)>> ELSE <<>>)
         \o TermHits(val, col, Tail(terms))

\* lines 158-163 for one record: the hits in column order
RECURSIVE FoundTerms(_, _)
FoundTerms(r, cols) ==
    IF cols = <<>> THEN <<>>
    ELSE TermHits(normalize_text(GetOr(r, Head(cols), <<>>)), Head(cols), SUSPICIOUS_TERMS)
         \o FoundTerms(r, Tail(cols))

\* ", ".join(parts)
RECURSIVE Join(_)
Join(parts) ==
    IF parts = <<>> THEN <<>>
    ELSE IF Len(parts) = 1 THEN parts[1]
    ELSE parts[1] \o <<",", " ">> \o Join(Tail(parts))

\* lines 166-169: copy, tag, explain, append
EmitDetailed(st, ref, reason, details) ==
    LET c == CopyDict(st.heap, ref)
        h1 == SetItem(c.heap, c.ref, "_reason", reason)
    IN  [heap |-> SetItem(h1, c.ref, "_details", details),
         out  |-> Append(st.out, c.ref)]

RECURSIVE KeywordLoop(_, _, _)
KeywordLoop(st, rows, cols) ==
    IF rows = <<>> THEN st
    ELSE LET found_terms == FoundTerms(st.heap[Head(rows)], cols)
         IN  KeywordLoop(IF found_terms # <<>>
                         THEN EmitDetailed(st, Head(rows), ReasonSuspicious, Join(found_terms))
                         ELSE st,
                         Tail(rows), cols)

flag_suspicious_keywords(h, rows, cols) ==
    KeywordLoop([heap |-> h, out |-> <<>>], rows, cols)

\* ----------------------------------------------------------------------
\* Subtraction of two doubles, as far as a comparison with 0.01 and the
\* two-decimal format of the result need it.  With a = va/Scale, b = vb/Scale
\* (va > vb) and A, B the doubles float() reads them as, |A - B| rounded to a
\* double is located on the grid of the doubles around d/Scale, d = va - vb:
\* DiffGrid is its offset from the grid point at or below d/Scale.
\* ----------------------------------------------------------------------
SignedErr(v) == IF v < 0 THEN 0 - DoubleErr(0 - v) ELSE DoubleErr(v)
ShiftOf(v) == DoubleShift(Abs(v))
Sgn(x) == IF x < 0 THEN -1 ELSE IF x > 0 THEN 1 ELSE 0

\* d * 2^k mod m
ShiftMod(d, k, m) == ((d % m) * PowMod(2, k, m)) % m

\* operands whose grid is 2^10 or more times finer than the result's only
\* tip an exact tie
FarGap == 10

\* how many binary places the grid of the operand v is finer than the grid
\* of the result (kz: the result's shift); 0 for an operand that is exact
GridGap(v, kz) == IF v = 0 \/ SignedErr(v) = 0 THEN 0 ELSE ShiftOf(v) - kz
IsNear(v, kz) == GridGap(v, kz) < FarGap
NearGap(v, kz) == IF IsNear(v, kz) /\ GridGap(v, kz) > 0 THEN GridGap(v, kz) ELSE 0

\* the operand's rounding error on the common grid of 2^m places
ErrPart(v, kz, m) ==
    IF v = 0 \/ ~IsNear(v, kz) THEN 0
    ELSE SignedErr(v) * Pow(2, m - GridGap(v, kz))

\* N / D rounded to the nearest integer; an exact tie goes the way the far
\* operands' errors point (eps), and with none to the even grid point
\* (upper: the grid point below d/Scale is odd exactly when q is even)
RoundTie(q, r, D, eps, upper) ==
    IF 2 * r < D THEN q
    ELSE IF 2 * r > D THEN q + 1
    ELSE IF eps > 0 THEN q + 1
    ELSE IF eps < 0 THEN q
    ELSE IF upper # (q % 2 = 0) THEN q ELSE q + 1

RoundQuot(N, D, eps, upper) == RoundTie(N \div D, N % D, D, eps, upper)

\* on the common grid of 2^m places below the result's grid
DiffGridOn(va, vb, kz, m) ==
    RoundQuot(ShiftMod(va - vb, kz, Scale) * Pow(2, m)
                  + ErrPart(va, kz, m) - ErrPart(vb, kz, m),
              Scale * Pow(2, m),
              (IF IsNear(va, kz) THEN 0 ELSE Sgn(SignedErr(va)))
                  - (IF IsNear(vb, kz) THEN 0 ELSE Sgn(SignedErr(vb))),
              ShiftMod(va - vb, kz, 2 * Scale) >= Scale)

Greater(x, y) == IF x > y THEN x ELSE y

DiffGridAt(va, vb, kz) ==
    DiffGridOn(va, vb, kz, Greater(NearGap(va, kz), NearGap(vb, kz)))

DiffGrid(va, vb) == DiffGridAt(va, vb, DoubleShift(va - vb))

\* sign of (the double |A - B|) - d/Scale
DiffErrSign(va, vb) ==
    Sgn(DiffGrid(va, vb) * Scale - ShiftMod(va - vb, DoubleShift(va - vb), Scale))

\* ----------------------------------------------------------------------
\* app/auditor.py: flag_discrepancies
\* ----------------------------------------------------------------------
incurred_col == "amount_usd"
paid_col == "paid_amount_usd"
ReasonDiscrepancy == <<"d","i","s","c","r","e","p","a","n","c","y">>

\* the decimal 0.01 in units of 1/Scale, and where the double 0.01 lies on
\* its grid
Cent == Scale \div 100
CentGrid == IF 2 * ShiftMod(Cent, DoubleShift(Cent), Scale) > Scale THEN 1 ELSE 0

\* line 190: abs(incurred - paid) > 0.01, for the greater value hi and the lesser lo
DiffExceedsCent(hi, lo) ==
    IF hi - lo # Cent THEN hi - lo > Cent
    ELSE DiffGrid(hi, lo) > CentGrid

\* f"{x:.2f}" with the side on which the double lies of its decimal given
HundredthsBy(mag, errsign) ==
    LET unit == Scale \div 100
        q == mag \div unit
        r == mag % unit
    IN  IF 2 * r < unit THEN q
        ELSE IF 2 * r > unit THEN q + 1
        ELSE IF errsign < 0 THEN q
        ELSE IF errsign > 0 THEN q + 1
        ELSE IF q % 2 = 0 THEN q ELSE q + 1

\* line 193: f"Diff: ${diff:.2f}", h the hundredths of diff
DiffPrefix == <<"D", "i", "f", "f", ":", " ", "$">>
DiffText(h) ==
    DiffPrefix
    \o NatToStr(h \div 100) \o <<".">>
    \o <<DigitSeq[((h \div 10) % 10) + 1], DigitSeq[(h % 10) + 1]>>

DiffDetails(hi, lo) == DiffText(HundredthsBy(hi - lo, DiffErrSign(hi, lo)))

\* lines 189-194, for the greater value hi and the lesser lo
DiscrepancyEmit(st, r, hi, lo) ==
    IF hi # lo /\ DiffExceedsCent(hi, lo)
    THEN EmitDetailed(st, r, ReasonDiscrepancy, DiffDetails(hi, lo))
    ELSE st

\* lines 189-194 for the double diff
DiscrepancyEmitGap(st, r, gap) ==
    IF IsInf(gap)
    THEN EmitDetailed(st, r, ReasonDiscrepancy, DiffPrefix \o InfText)
    ELSE IF MagLess(UnitsExact(Cent), gap)
    THEN EmitDetailed(st, r, ReasonDiscrepancy,
                      DiffPrefix \o TwoDecimals(HundredthDigits(gap, 0)))
    ELSE st

\* lines 189-194 for amounts that are not both [neg, mag]: nan - x and
\* inf - inf are nan, and no comparison with nan holds
DiscrepancyOther(st, r, incurred, paid) ==
    IF IsNaN(incurred) \/ IsNaN(paid) THEN st
    ELSE IF IsInf(incurred) /\ IsInf(paid) /\ incurred.neg = paid.neg THEN st
    ELSE IF IsInf(incurred) \/ IsInf(paid)
    THEN EmitDetailed(st, r, ReasonDiscrepancy, DiffPrefix \o InfText)
    ELSE DiscrepancyEmitGap(st, r, GapOf(Exact(incurred), Exact(paid)))

\* lines 186-187: a record without both amounts is skipped
DiscrepancyBody(st, r, incurred, paid) ==
    IF incurred = NoValue \/ paid = NoValue THEN st
    ELSE IF IsGrid(incurred) /\ IsGrid(paid)
    THEN DiscrepancyEmit(st, r, Greater(Signed(incurred), Signed(paid)),
                         Lesser(Signed(incurred), Signed(paid)))
    ELSE DiscrepancyOther(st, r, incurred, paid)

RECURSIVE DiscrepancyLoop(_, _)
DiscrepancyLoop(st, rows) ==
    IF rows = <<>> THEN st
    ELSE DiscrepancyLoop(
             DiscrepancyBody(st, Head(rows),
                             parse_float(Get(st.heap[Head(rows)], incurred_col)),
                             parse_float(Get(st.heap[Head(rows)], paid_col))),
             Tail(rows))

flag_discrepancies(h, rows) == DiscrepancyLoop([heap |-> h, out |-> <<>>], rows)

\* ----------------------------------------------------------------------
\* Input records: the rows a CSV load or an add request can produce.  They
\* cover raw spellings that normalise alike, unparseable and empty values,
\* None values (a CSV line shorter than the header), absent columns, and a
\* record that already carries the reserved keys.
\* ----------------------------------------------------------------------
R1 ==
    "expense_id" :> <<"E","1">> @@ "merchant" :> <<"A","c","m","e">> @@
    "invoice_no" :> <<"I","N","V","-","1">> @@ "amount_usd" :> <<"1","0","0",".","0","0">> @@
    "paid_amount_usd" :> <<"1","0","0",".","0","0">> @@
    "expense_date" :> <<"2","0","2","4","-","0","1","-","0","6">> @@
    "category" :> <<"M","e","a","l">> @@ "employee" :> <<"A","n","n">>
R2 ==
    "expense_id" :> <<"E","2">> @@ "merchant" :> <<"A","C","M","E">> @@
    "invoice_no" :> <<"i","n","v","U+2013","1">> @@
    "amount_usd" :> <<"$","1","0","0",".","0","0">> @@
    "paid_amount_usd" :> <<"1","0","0",".","0","1">> @@
    "expense_date" :> <<"0","1","/","0","7","/","2","0","2","4">> @@
    "category" :> <<"C","l","i","e","n","t"," ","G","i","f","t">> @@
    "employee" :> <<"B","o","b">>
R3 ==
    "expense_id" :> <<"E","3">> @@ "merchant" :> <<" ","a","c","m","e"," ">> @@
    "invoice_no" :> <<"I","N","V","-","1">> @@ "amount_usd" :> <<"n","/","a">> @@
    "paid_amount_usd" :> <<"None">> @@
    "expense_date" :> <<"2","0","2","4","-","0","1","-","0","8">> @@
    "category" :> <<"A","i","r">> @@ "employee" :> <<"A","n","n">>
R4 ==
    "expense_id" :> <<"E","4">> @@ "merchant" :> <<"B","o","l","t">> @@
    "invoice_no" :> <<"B","-","2">> @@ "amount_usd" :> <<"5","0","0","0",".","0","0">> @@
    "paid_amount_usd" :> <<"5",",","0","0","0">> @@
    "expense_date" :> <<"2","0","2","4","/","0","1","/","0","6">> @@
    "category" :> <<"H","o","t","e","l">> @@ "employee" :> <<"C","y">>
R5 ==
    "expense_id" :> <<"E","5">> @@ "merchant" :> <<"B","o","l","t">> @@
    "invoice_no" :> <<"B","-","2">> @@ "amount_usd" :> <<"5","0","0","0",".","0","1">> @@
    "paid_amount_usd" :> <<"4","9","9","9",".","9","9">> @@
    "expense_date" :> <<"j","u","n","k">> @@ "category" :> <<"H","o","t","e","l">> @@
    "employee" :> <<"C","y">>
R6 ==
    "expense_id" :> <<"E","6">> @@ "merchant" :> <<"C","a","s","h"," ","S","p","a">> @@
    "invoice_no" :> <<>> @@ "amount_usd" :> <<"4","8","0","0">> @@ "paid_amount_usd" :> <<>> @@
    "expense_date" :> <<>> @@ "category" :> <<"O","t","h","e","r">> @@
    "employee" :> <<"D","i">>
R7 ==
    "expense_id" :> <<"E","7">> @@ "merchant" :> <<"None">> @@ "invoice_no" :> <<"None">> @@
    "amount_usd" :> <<"None">> @@ "paid_amount_usd" :> <<"None">> @@
    "expense_date" :> <<"None">> @@ "category" :> <<"None">> @@ "employee" :> <<"None">>
R8 ==
    "expense_id" :> <<"E","8">>
R9 ==
    "expense_id" :> <<"E","9">> @@ "merchant" :> <<"A","c","m","e">> @@
    "invoice_no" :> <<"I","N","V","-","1">> @@ "amount_usd" :> <<"1","0","0",".","0","0">> @@
    "expense_date" :> <<"2","0","2","4","-","0","1","-","0","7">> @@ "_reason" :> <<"x">> @@
    "_dup_count" :> <<"7">> @@ "_details" :> <<"y">>
R10 ==
    "expense_id" :> <<"E","1","0">> @@ "merchant" :> <<"Z","e","d">> @@
    "invoice_no" :> <<"Z","-","9">> @@ "amount_usd" :> <<"$","0",".","9","9">> @@
    "paid_amount_usd" :> <<"1",".","0","0">> @@
    "expense_date" :> <<" ","1","/","6","/","2","0","2","4"," ">> @@
    "category" :> <<"M","i","s","c">> @@ "employee" :> <<"S","p","a","r","k">>
R11 ==
    "expense_id" :> <<"E","1","1">> @@ "merchant" :> <<"Z","e","d">> @@
    "invoice_no" :> <<"Z","-","9">> @@ "amount_usd" :> <<"4","8","0","0",".","0","1">> @@
    "paid_amount_usd" :> <<"4","8","0","0",".","0","0","5">> @@
    "expense_date" :> <<"2","0","2","4","-","0","2","-","3","0">> @@
    "category" :> <<"A","i","r">> @@ "employee" :> <<"E","v","e">>
R12 ==
    "expense_id" :> <<"E","1","2">> @@ "merchant" :> <<"Y","a","k">> @@
    "invoice_no" :> <<"b","-","2">> @@ "amount_usd" :> <<"5",",","0","0","0",".","0","0">> @@
    "paid_amount_usd" :> <<"a","b","c">> @@
    "expense_date" :> <<"2","0","2","4","-","1","-","7">> @@
    "category" :> <<"M","e","a","l">> @@ "employee" :> <<"E","v","e">>
R13 ==
    "expense_id" :> <<"E","1","3">> @@ "merchant" :> <<"Y","a","k">> @@
    "invoice_no" :> <<"Y","-","1">> @@ "amount_usd" :> <<"U+0660",".","5">> @@
    "paid_amount_usd" :> <<"0",".","5","1">> @@
    "expense_date" :> <<"2","0","2","4","-","0","1","-","1","3">> @@
    "category" :> <<"P","e","r","s","o","n","a","l">> @@ "employee" :> <<"F","l","o">>

RecordPool == {R1, R2, R3, R4, R5, R6, R7, R8, R9, R10, R11, R12, R13}
DupPool == {R1, R2, R4, R7, R8, R12}

\* ----------------------------------------------------------------------
\* State
\* ----------------------------------------------------------------------
VARIABLES
    heap,   \* object identity -> dict: the records and findings alive
    ROWS,   \* state.ROWS: the list of the records' identities
    out,    \* what the last detector call returned (or that it raised)
    call,   \* the last call: its name, its arguments, the rows' contents before
            \* it, and what the call before returned when this one repeats it
    det,    \* web server: the request thread that runs a detector endpoint
    crud,   \* the thread that runs add, update or delete (web request or menu)
    parked  \* web server: a second such thread, waiting for its turn to run

vars == <<heap, ROWS, out, call, det, crud, parked>>

Range(s) == {s[i] : i \in 1..Len(s)}
Contents(h, refs) == [i \in 1..Len(refs) |-> h[refs[i]]]

\* the objects reachable from the given lists; the rest is garbage (the
\* findings of an earlier call are released when a new call begins)
Collect(h, rows, refs) == [x \in (Range(rows) \cup Range(refs)) \cap DOMAIN h |-> h[x]]
Live(h, rows) == Collect(h, rows, <<>>)

NoCounts == [counts |-> [d \in 1..9 |-> 0], total |-> 0]
DetIdle == [pc |-> "idle", i |-> 0, seen |-> <<>>, b |-> <<>>, acc |-> NoCounts,
            held |-> [ref |-> 0, tags |-> <<>>], got |-> <<>>, col |-> 0, k |-> 0, n |-> 0]
CrudIdle == [pc |-> "idle", op |-> "none", id |-> <<>>, i |-> 0, ref |-> 0, index |-> 0,
             saved |-> <<>>, size |-> 0, status |-> 0, n |-> 0, before |-> <<>>, data |-> <<>>]
NoOut == [kind |-> "none"]
NoCall == [op |-> "none", arg |-> <<>>, rows |-> <<>>, first |-> NoOut]
ListOut(refs) == [kind |-> "list", refs |-> refs]

\* main.py line 50: state.ROWS = load_rows(...), rows drawn from pool
Loaded(pool, least, n) ==
    \E k \in least..n : \E s \in [1..k -> pool] :
        /\ heap = s
        /\ ROWS = [i \in 1..k |-> i]
        /\ out = NoOut
        /\ call = NoCall
        /\ det = DetIdle
        /\ crud = CrudIdle
        /\ parked = CrudIdle

Init == Loaded(RecordPool, 0, MaxRows)

CallFindDuplicates ==
    \E include_merchant \in BOOLEAN :
        LET r == find_duplicate_invoices(Live(heap, ROWS), ROWS, include_merchant)
        IN  /\ heap' = r.heap
            /\ out' = ListOut(r.out)
            /\ call' = [op |-> "find_duplicate_invoices",
                        arg |-> [include_merchant |-> include_merchant],
                        rows |-> Contents(heap, ROWS), first |-> NoOut]
            /\ UNCHANGED <<ROWS, det, crud, parked>>

\* one call of flag_threshold on the list
ThresholdCall(limit, buffer) ==
    LET r == flag_threshold(Live(heap, ROWS), ROWS, limit, buffer)
    IN  /\ heap' = r.heap
        /\ out' = ListOut(r.out)
        /\ call' = [op |-> "flag_threshold",
                    arg |-> [limit |-> limit, buffer |-> buffer],
                    rows |-> Contents(heap, ROWS), first |-> NoOut]
        /\ UNCHANGED <<ROWS, det, crud, parked>>

\* limit and buffer: caller-supplied, non-negative (5000 / 200 are the defaults)
Limits == {100 * Scale, 5000 * Scale}
Buffers == {0, 200 * Scale}

CallFlagThreshold ==
    \E limit \in Limits, buffer \in Buffers : ThresholdCall(limit, buffer)

\* limits and buffers with a fraction: 0.7 and 0.2, whose difference as
\* doubles lies below 0.5
FractionLimits == {(7 * Scale) \div 10}
FractionBuffers == {(2 * Scale) \div 10}

CallFlagThresholdFraction ==
    \E limit \in FractionLimits, buffer \in FractionBuffers : ThresholdCall(limit, buffer)

CallFlagWeekends ==
    LET r == flag_weekends(Live(heap, ROWS), ROWS)
    IN  /\ heap' = r.heap
        /\ out' = ListOut(r.out)
        /\ call' = [op |-> "flag_weekends", arg |-> <<>>,
                    rows |-> Contents(heap, ROWS), first |-> NoOut]
        /\ UNCHANGED <<ROWS, det, crud, parked>>

CallBenford ==
    /\ heap' = Live(heap, ROWS)
    /\ out' = calculate_benford_stats(Live(heap, ROWS), ROWS)
    /\ call' = [op |-> "calculate_benford_stats", arg |-> <<>>,
                rows |-> Contents(heap, ROWS), first |-> NoOut]
    /\ UNCHANGED <<ROWS, det, crud, parked>>

CallSuspiciousKeywords ==
    LET r == flag_suspicious_keywords(Live(heap, ROWS), ROWS, check_cols)
    IN  /\ heap' = r.heap
        /\ out' = ListOut(r.out)
        /\ call' = [op |-> "flag_suspicious_keywords", arg |-> <<>>,
                    rows |-> Contents(heap, ROWS), first |-> NoOut]
        /\ UNCHANGED <<ROWS, det, crud, parked>>

CallFlagDiscrepancies ==
    LET r == flag_discrepancies(Live(heap, ROWS), ROWS)
    IN  /\ heap' = r.heap
        /\ out' = ListOut(r.out)
        /\ call' = [op |-> "flag_discrepancies", arg |-> <<>>,
                    rows |-> Contents(heap, ROWS), first |-> NoOut]
        /\ UNCHANGED <<ROWS, det, crud, parked>>

Next ==
    \/ CallFindDuplicates
    \/ CallFlagWeekends
    \/ CallFlagThreshold
    \/ CallBenford
    \/ CallSuspiciousKeywords
    \/ CallFlagDiscrepancies

Spec == Init /\ [][Next]_vars

\* flag_threshold alone, with whole and with fractional limits
NextThreshold ==
    \/ CallFlagThreshold
    \/ CallFlagThresholdFraction

SpecThreshold == Init /\ [][NextThreshold]_vars

\* The duplicate detector alone, on longer inputs (two clusters need four rows)
InitDup == Loaded(DupPool, 0, MaxDupRows)
NextDup == CallFindDuplicates
SpecDup == InitDup /\ [][NextDup]_vars

\* The duplicate detector on the inputs whose every rearrangement is compared:
\* up to four rows, so that two clusters occur, of two spellings of one key
\* (R1, R2) and another key (R4)
PermPool == {R1, R2, R4}
InitPerm == Loaded(PermPool, 0, MaxPermRows)
SpecPerm == InitPerm /\ [][NextDup]_vars

\* ----------------------------------------------------------------------
\* app/web.py under the threaded server of main.py line 61, and the menu of
\* app/cli.py: one request thread runs a detector endpoint on state.ROWS, the
\* list itself, while another thread runs add, update or delete.  The
\* interpreter can switch threads between any two accesses to the shared
\* list and its dicts, and the menu waits in input() between its accesses,
\* so every such access is a step of its own:
\*   - "for r in rows" is a list iterator: it holds a position in the live
\*     list and each next() yields the element now at that position;
\*   - each r.get(col) reads the record as it is at that moment, and
\*     dict(r) copies it as it is then;
\*   - state.ROWS[index] yields the element now at the index, and what the
\*     statement does with it (dict(), update(), an assignment) comes after;
\*   - append, pop, del, insert and the assignment to state.ROWS[index]
\*     change the list in one step.
\* What a thread does on its own data (validating the request body or the
\* typed lines, parsing, sorting its findings, answering) is joined to the
\* access before it.
\* ----------------------------------------------------------------------
\* rows in the list at the start
MaxWebRows == 2
\* add, update and delete operations begun in one behaviour, over all threads
MaxCrud == 2
\* detector calls in one behaviour
MaxDetCalls == 1

WebPool == {R1, R4}

\* request bodies of POST /api/add
AddValid ==
    "expense_id" :> <<"E","9">> @@ "employee" :> <<"B","o">> @@
    "department" :> <<"O","p","s">> @@
    "expense_date" :> <<"2","0","2","4","-","0","1","-","0","7">> @@
    "amount_usd" :> <<"5","0","0","0",".","0","1">> @@
    "currency" :> <<"U","S","D">> @@ "category" :> <<"S","p","a">> @@
    "merchant" :> <<"B","o","l","t">> @@ "invoice_no" :> <<"B","-","2">>
AddNoDepartment == [k \in DOMAIN AddValid \ {"department"} |-> AddValid[k]]
\* JSON numbers in place of strings: "amount_usd": 0, "expense_date": 20240107
AddZeroAmount == [AddValid EXCEPT !["amount_usd"] = IntVal(0)]
AddIntDate == [AddValid EXCEPT !["expense_date"] = IntVal(20240107)]
\* the body {}
NoBody == <<>>
\* a body with the id of a row of WebPool
AddTaken == [AddValid EXCEPT !["expense_id"] = <<"E","4">>]
AddBodies == {AddValid, AddTaken, AddNoDepartment, AddZeroAmount, AddIntDate, NoBody}

\* request bodies of PUT /api/update/<expense_id>
UpdateAmount == "amount_usd" :> <<"9","9","0","0">>
UpdateBoth == "amount_usd" :> <<"5","0",".","0","0">> @@
              "paid_amount_usd" :> <<"5","0",".","0","0">>
UpdateBadDate == "expense_date" :> <<"j","u","n","k">>
UpdateNullDate == "expense_date" :> None
UpdateId == "expense_id" :> <<"E","4">>
UpdateBodies == {UpdateAmount, UpdateBoth, UpdateBadDate, UpdateNullDate, UpdateId, NoBody}
ExpenseIds == {<<"E","1">>, <<"E","4">>, <<"E","0">>}

required_fields == <<"expense_id", "employee", "department", "expense_date",
                     "amount_usd", "currency", "category", "merchant", "invoice_no">>

\* the endpoints and the arguments they pass (threshold: no query arguments,
\* so limit 5000.0 and buffer 200.0)
Endpoints ==
    { [op |-> "find_duplicate_invoices", arg |-> [include_merchant |-> TRUE]],
      [op |-> "flag_weekends", arg |-> <<>>],
      [op |-> "flag_threshold", arg |-> [limit |-> 5000 * Scale, buffer |-> 200 * Scale]],
      [op |-> "calculate_benford_stats", arg |-> <<>>],
      [op |-> "flag_suspicious_keywords", arg |-> <<>>],
      [op |-> "flag_discrepancies", arg |-> <<>>] }

\* d.update(data)
DictUpdate(d, data) ==
    [k \in DOMAIN d \cup DOMAIN data |-> IF k \in DOMAIN data THEN data[k] ELSE d[k]]

\* the objects a thread of add, update or delete holds: the row its
\* subscript or iterator yielded, the copy or the row it keeps for taking
\* its change back
Holds(t) == t.saved \o (IF t.ref = 0 THEN <<>> ELSE <<t.ref>>)

\* the columns one pass of a detector's loop reads, in the order of its
\* r.get(...) calls (auditor.py 21-24, 55, 83, 110, 160, 183-184)
ReadCols(op, arg) ==
    CASE op = "find_duplicate_invoices" ->
           IF arg.include_merchant THEN <<invoice_col, amount_col, merchant_col>>
           ELSE <<invoice_col, amount_col>>
      [] op = "flag_weekends" -> <<date_col>>
      [] op = "flag_threshold" -> <<amount_col>>
      [] op = "calculate_benford_stats" -> <<amount_col>>
      [] op = "flag_suspicious_keywords" -> check_cols
      [] op = "flag_discrepancies" -> <<incurred_col, paid_col>>

\* r.get(col) added to what the pass has read so far: got holds the columns
\* read that the record had, with the values they had when they were read
Read(got, rec, col) == IF col \in DOMAIN rec THEN DictSet(got, col, rec[col]) ELSE got

\* the body of one iteration of a detector's loop over the record r
LoopBody(op, arg, st, r) ==
    CASE op = "flag_weekends" -> WeekendLoop(st, <<r>>)
      [] op = "flag_threshold" -> ThresholdLoop(st, <<r>>, arg.limit, arg.buffer)
      [] op = "flag_suspicious_keywords" -> KeywordLoop(st, <<r>>, check_cols)
      [] op = "flag_discrepancies" -> DiscrepancyLoop(st, <<r>>)
      [] OTHER -> st

\* the keys a detector sets on the copy it emits
TagsOf(op) ==
    IF op \in {"flag_suspicious_keywords", "flag_discrepancies"}
    THEN {"_reason", "_details"}
    ELSE {"_reason"}

\* the first part of the loop body, up to the decision: the values the body
\* has read (got) make it emit a finding with these keys set, or none (no
\* key).  Weekends: auditor.py 55-67, threshold 83-90, keywords 158-165,
\* discrepancies 183-190.
TagsIn(op, st) ==
    IF st.out = <<>> THEN NoBody
    ELSE [k \in TagsOf(op) |-> st.heap[st.out[1]][k]]

Judged(op, arg, got) ==
    TagsIn(op, LoopBody(op, arg, [heap |-> (1 :> got), out |-> <<>>], 1))

\* the detector thread after the decision: on to the copy, or to the next
\* record
Decided(d, tags) ==
    IF DOMAIN tags = {} THEN d
    ELSE [d EXCEPT !.pc = "copy", !.held = [ref |-> det.held.ref, tags |-> tags]]

\* mutation (C11): the result list, the buckets and the counters are made
\* once and outlive the call (module-level objects, or mutable default
\* arguments)
EnterKeeping(e, rows, first, keep) ==
    /\ heap' = Collect(heap, ROWS, keep)
    /\ out' = IF out.kind = "list" THEN out ELSE ListOut(<<>>)
    /\ call' = [op |-> e.op, arg |-> e.arg, rows |-> rows, first |-> first]
    /\ det' = [DetIdle EXCEPT !.pc = "iter", !.n = det.n + 1, !.b = det.b, !.acc = det.acc]
    /\ UNCHANGED <<ROWS, crud, parked>>

\* a detector is entered with the list: its result list, its buckets and its
\* counters are new and empty (auditor.py 18, 30, 53, 81, 104-105, 155, 180)
\* and its loop starts at the head of the list; check_cols, the one default
\* argument that all calls share (153), is only read.  The objects of keep are
\* still referred to and stay alive; what nothing refers to is released.
\* rows and first are kept for the claims: the list's contents before the
\* call, and what the call before returned when this one repeats it.
Enter(e, rows, first, keep) ==
    /\ heap' = Collect(heap, ROWS, keep)
    /\ out' = ListOut(<<>>)
    /\ call' = [op |-> e.op, arg |-> e.arg, rows |-> rows, first |-> first]
    /\ det' = [DetIdle EXCEPT !.pc = "iter", !.n = det.n + 1]
    /\ UNCHANGED <<ROWS, crud, parked>>

\* an endpoint calls its detector with state.ROWS
DetBegin ==
    \E e \in Endpoints :
        /\ det.pc \in {"idle", "done"}
        /\ det.n < MaxDetCalls
        /\ Enter(e, Contents(heap, ROWS), NoOut, Holds(crud) \o Holds(parked))

\* the detectors' calls of Endpoints, and with other arguments than the
\* endpoints pass
Calls ==
    Endpoints \cup
    { [op |-> "find_duplicate_invoices", arg |-> [include_merchant |-> FALSE]],
      [op |-> "flag_threshold", arg |-> [limit |-> 100 * Scale, buffer |-> 0]] }

\* a detector is called with the list
CallFirst ==
    \E e \in Calls :
        /\ det.pc = "idle"
        /\ det.n = 0
        /\ Enter(e, Contents(heap, ROWS), NoOut, <<>>)

\* the call has returned and the caller holds its result: the same detector
\* is called once more, with the same arguments, on the list as it is now
CallAgain ==
    /\ det.pc = "done"
    /\ det.n = 1
    /\ Enter([op |-> call.op, arg |-> call.arg], call.rows, out,
             IF out.kind = "list" THEN out.refs ELSE <<>>)

\* "for r in rows": the iterator yields the element now at its position
DetNext ==
    /\ det.pc = "iter"
    /\ det.i < Len(ROWS)
    /\ det' = [det EXCEPT !.pc = "read", !.i = @ + 1,
                          !.held = [ref |-> ROWS[det.i + 1], tags |-> NoBody]]
    /\ UNCHANGED <<heap, ROWS, out, call, crud, parked>>

\* the pass has read its last column: the rest of the loop body up to the
\* decision (the bucket loop of find_duplicate_invoices, lines 25-28, and the
\* loop of calculate_benford_stats, 111-115, end here)
DetJudge(d, got) ==
    CASE call.op = "find_duplicate_invoices" ->
           /\ det' = [d EXCEPT !.b = BucketAdd(@, DupKey(got, call.arg.include_merchant),
                                               det.held.ref)]
           /\ UNCHANGED out
      [] call.op = "calculate_benford_stats" ->
           IF "raise" \in DOMAIN BenfordStep(got)
           THEN /\ det' = [d EXCEPT !.pc = "done"]
                /\ out' = [kind |-> "raise", exc |-> BenfordStep(got).raise]
           ELSE /\ det' = [d EXCEPT !.acc = BenfordCount(@, BenfordStep(got).digit)]
                /\ UNCHANGED out
      [] OTHER ->
           /\ det' = Decided(d, Judged(call.op, call.arg, got))
           /\ UNCHANGED out

\* one r.get(col) of the pass, on the record as it is now
DetGet(got) ==
    IF det.col + 1 < Len(ReadCols(call.op, call.arg))
    THEN /\ det' = [det EXCEPT !.got = got, !.col = @ + 1]
         /\ UNCHANGED out
    ELSE DetJudge([det EXCEPT !.pc = "iter", !.got = NoBody, !.col = 0,
                              !.held = DetIdle.held, !.seen = Append(@, got)], got)

DetRead ==
    /\ det.pc = "read"
    /\ DetGet(Read(det.got, heap[det.held.ref], ReadCols(call.op, call.arg)[det.col + 1]))
    /\ UNCHANGED <<heap, ROWS, call, crud, parked>>

\* the second part of the loop body: copy = dict(r) of the record as it is
\* now, the keys decided before, append (weekends 68-70, threshold 92-94,
\* keywords 166-169, discrepancies 191-194)
DetCopy ==
    /\ det.pc = "copy"
    /\ LET c == CopyDict(heap, det.held.ref)
       IN  /\ heap' = [c.heap EXCEPT ![c.ref] = DictUpdate(@, det.held.tags)]
           /\ out' = ListOut(Append(out.refs, c.ref))
    /\ det' = [det EXCEPT !.pc = "iter", !.held = DetIdle.held]
    /\ UNCHANGED <<ROWS, call, crud, parked>>

\* the iterator's position has reached the end of the list: the loop ends;
\* find_duplicate_invoices goes on to its emission loop, the others return
DetFinish ==
    /\ det.pc = "iter"
    /\ det.i >= Len(ROWS)
    /\ CASE call.op = "find_duplicate_invoices" ->
              /\ det' = [det EXCEPT !.pc = "emit"]
              /\ UNCHANGED out
         [] call.op = "calculate_benford_stats" ->
              /\ det' = [det EXCEPT !.pc = "done"]
              /\ out' = [kind |-> "dict", value |-> BenfordReport(det.acc.counts, det.acc.total)]
         [] OTHER ->
              /\ det' = [det EXCEPT !.pc = "done"]
              /\ UNCHANGED out
    /\ UNCHANGED <<heap, ROWS, call, crud, parked>>

\* the (bucket, position) pairs that the loops of lines 31-33 visit, in order
RECURSIVE EmitPlan(_, _)
EmitPlan(b, g) ==
    IF g > Len(b) THEN <<>>
    ELSE (IF IsDupGroup(b[g].group)
          THEN [j \in 1..Len(b[g].group) |-> [g |-> g, j |-> j]]
          ELSE <<>>)
         \o EmitPlan(b, g + 1)

\* one pass of the emission loop: rec = dict(item) of the record as it is
\* now, lines 34-37
DetEmit ==
    /\ det.pc = "emit"
    /\ det.k < Len(EmitPlan(det.b, 1))
    /\ LET at == EmitPlan(det.b, 1)[det.k + 1]
       IN  /\ heap' = EmitItem([heap |-> heap, out |-> out.refs], det.b[at.g].group, at.j).heap
           /\ out' = ListOut(Append(out.refs, NextId(heap)))
    /\ det' = [det EXCEPT !.k = @ + 1]
    /\ UNCHANGED <<ROWS, call, crud, parked>>

\* the emission loop has ended: the sort of lines 39-43, on the copies, and
\* the return
DetSort ==
    /\ det.pc = "emit"
    /\ det.k >= Len(EmitPlan(det.b, 1))
    /\ out' = ListOut(DupSort(heap, out.refs, call.arg.include_merchant))
    /\ det' = [det EXCEPT !.pc = "done"]
    /\ UNCHANGED <<heap, ROWS, call, crud, parked>>

RemoveAt(s, i) == [j \in 1..(Len(s) - 1) |-> IF j < i THEN s[j] ELSE s[j + 1]]
InsertAt(s, i, x) ==
    [j \in 1..(Len(s) + 1) |-> IF j < i THEN s[j] ELSE IF j = i THEN x ELSE s[j - 1]]

\* datetime.strptime(v, '%Y-%m-%d') inside "try ... except ValueError": a
\* value that is not a str raises TypeError, which that clause lets through
ValidDate(v) ==
    IF ~IsStr(v) THEN "TypeError"
    ELSE IF strptime(v, date_fmts[1]) = NoValue THEN "ValueError"
    ELSE "ok"

MenuOps == {"cli_add", "cli_update", "cli_delete"}

\* the operations the two threads have begun
Begun == crud.n + parked.n

\* the handler returns before its first access to the list, with this status
Answer(status) == [CrudIdle EXCEPT !.status = status, !.n = crud.n + 1]
\* the handler returns later, with this status; the menu has no status (0)
Done(status) ==
    [CrudIdle EXCEPT !.status = IF crud.op \in MenuOps THEN 0 ELSE status, !.n = crud.n]
\* an exception leaves run_menu, which main.py line 65 called: the menu's
\* thread is over.  A request thread of the server (a daemon thread) that is
\* at work goes on until the interpreter shuts down.
Raised == [CrudIdle EXCEPT !.pc = "raised", !.n = crud.n]
\* the menu's thread is between two options: the other thread is not the
\* menu at work, nor the menu after an exception
MenuFree == parked.op \notin MenuOps /\ parked.pc # "raised"
\* the operation goes on to its lookup, with what it holds: the id it looks
\* for and the request body or the typed lines
\* before: the list's contents when the operation began (kept for the claims)
Started(op, id, data) ==
    [CrudIdle EXCEPT !.pc = "next", !.op = op, !.id = id, !.n = crud.n + 1,
                     !.before = Contents(heap, ROWS), !.data = data]

\* api_add, lines 140-148: the status it returns with before the lookup, 0
\* when it goes on
AddEarly(data) ==
    IF DOMAIN data = {} THEN 400
    ELSE IF \E i \in 1..Len(required_fields) : Falsy(Get(data, required_fields[i]))
    THEN 400
    ELSE 0

\* api_add, lines 153-159: the status it returns with after the lookup, 0
\* when it goes on to the append.  A TypeError of strptime reaches the outer
\* "except" (169).
AddStatus(data) ==
    IF ValidDate(data["expense_date"]) = "TypeError" THEN 500
    ELSE IF ValidDate(data["expense_date"]) = "ValueError" THEN 400
    ELSE IF parse_float(data["amount_usd"]) = NoValue THEN 400
    ELSE 0

\* api_add up to line 148: the checks of the body
api_add(data) ==
    /\ crud.pc = "idle"
    /\ crud' = IF AddEarly(data) # 0
               THEN Answer(AddEarly(data))
               ELSE Started("add", data["expense_id"], data)
    /\ UNCHANGED <<heap, ROWS, out, call, det, parked>>

AddBegin == \E data \in AddBodies : Begun < MaxCrud /\ api_add(data)

\* api_update, lines 189-196: the status it returns with after the lookup, 0
\* when it goes on to the copy
UpdateStatus(data) ==
    IF "expense_date" \in DOMAIN data /\ ValidDate(data["expense_date"]) = "TypeError"
    THEN 500
    ELSE IF "expense_date" \in DOMAIN data /\ ValidDate(data["expense_date"]) = "ValueError"
    THEN 400
    ELSE IF "amount_usd" \in DOMAIN data /\ parse_float(data["amount_usd"]) = NoValue
    THEN 400
    ELSE 0

\* api_update up to line 180: "if not data"
api_update(expense_id, data) ==
    /\ crud.pc = "idle"
    /\ crud' = IF DOMAIN data = {} THEN Answer(400)
               ELSE Started("update", expense_id, data)
    /\ UNCHANGED <<heap, ROWS, out, call, det, parked>>

UpdateBegin ==
    \E expense_id \in ExpenseIds, data \in UpdateBodies :
        Begun < MaxCrud /\ api_update(expense_id, data)

\* api_delete up to line 214
api_delete(expense_id) ==
    /\ crud.pc = "idle"
    /\ crud' = Started("delete", expense_id, NoBody)
    /\ UNCHANGED <<heap, ROWS, out, call, det, parked>>

DeleteBegin == \E expense_id \in ExpenseIds : Begun < MaxCrud /\ api_delete(expense_id)

\* ----------------------------------------------------------------------
\* app/cli.py, run_menu: options 4, 5 and 6 change state.ROWS from the
\* thread of the menu
\* ----------------------------------------------------------------------
\* the line typed at the prompt of a field; typed: field -> line, a prompt
\* left out is answered with the empty line
Line(typed, field) == IF field \in DOMAIN typed THEN typed[field] ELSE <<>>

\* "x or default" on a str
OrDefault(s, default) == IF s = <<>> THEN default ELSE s

\* option 4, lines 70-102: the record built from the typed lines
NewRecord(typed) ==
    [k \in {"expense_id", "employee", "department", "expense_date", "amount_usd",
            "currency", "category", "merchant", "invoice_no", "invoice_city",
            "trip_to_city", "approver", "paid_amount_usd"} |->
        IF k = "currency" THEN OrDefault(Strip(Line(typed, k)), <<"U","S","D">>)
        ELSE IF k = "paid_amount_usd"
        THEN OrDefault(Strip(Line(typed, k)), Strip(Line(typed, "amount_usd")))
        ELSE Strip(Line(typed, k))]

\* option 4, lines 84-93, after the lookup: the record is refused
AddRefused(rec) ==
    \/ ValidDate(rec["expense_date"]) # "ok"
    \/ parse_float(rec["amount_usd"]) = NoValue

\* option 4 up to line 75: the id typed, refused when empty
cli_add(typed) ==
    /\ crud.pc = "idle"
    /\ MenuFree
    /\ crud' = IF Strip(Line(typed, "expense_id")) = <<>> THEN Answer(0)
               ELSE Started("cli_add", Strip(Line(typed, "expense_id")), NewRecord(typed))
    /\ UNCHANGED <<heap, ROWS, out, call, det, parked>>

CliNew ==
    "expense_id" :> <<" ","E","9">> @@
    "expense_date" :> <<"2","0","2","4","-","0","1","-","0","7">> @@
    "amount_usd" :> <<"1","2",".","5","0">>
CliTaken == [CliNew EXCEPT !["expense_id"] = <<"E","1">>]
CliBadAmount == [CliNew EXCEPT !["amount_usd"] = <<"a","b","c">>]
CliNoId == [CliNew EXCEPT !["expense_id"] = <<" ">>]
CliAddLines == {CliNew, CliTaken, CliBadAmount, CliNoId}

CliAdd == \E typed \in CliAddLines : Begun < MaxCrud /\ cli_add(typed)

\* option 5, lines 138-140: the fields asked for, in this order
update_fields == <<"employee", "department", "expense_date", "amount_usd",
                   "currency", "category", "merchant", "invoice_no",
                   "invoice_city", "trip_to_city", "approver", "paid_amount_usd">>

\* option 5, lines 141-152: the line typed for the field is taken
Accepted(field, new_value) ==
    /\ new_value # <<>>
    /\ field = "expense_date" => ValidDate(new_value) = "ok"
    /\ field \in {"amount_usd", "paid_amount_usd"} => parse_float(new_value) # NoValue

\* option 5, lines 138-152: the assignments the typed lines lead to
Assignments(typed) ==
    [k \in {update_fields[i] : i \in {j \in 1..Len(update_fields) :
                Accepted(update_fields[j], Strip(Line(typed, update_fields[j])))}} |->
        Strip(Line(typed, k))]

\* the field of the next assignment: the first of update_fields still to do
NextField(todo) ==
    update_fields[CHOOSE i \in 1..Len(update_fields) :
                      /\ update_fields[i] \in DOMAIN todo
                      /\ \A j \in 1..(i - 1) : update_fields[j] \notin DOMAIN todo]

\* option 5 up to line 120: the id typed
cli_update(expense_id, typed) ==
    /\ crud.pc = "idle"
    /\ MenuFree
    /\ crud' = Started("cli_update", Strip(expense_id), Assignments(typed))
    /\ UNCHANGED <<heap, ROWS, out, call, det, parked>>

CliAmount == "amount_usd" :> <<"9","9","0","0">>
CliJunkDate == "expense_date" :> <<"j","u","n","k">> @@ "merchant" :> <<"Z","e","d"," ">>
CliUpdateLines == {CliAmount, CliJunkDate}

CliUpdate ==
    \E expense_id \in ExpenseIds, typed \in CliUpdateLines :
        Begun < MaxCrud /\ cli_update(expense_id, typed)

\* option 6 up to line 169: the id typed; confirm: the line typed at 183
cli_delete(expense_id, confirm) ==
    /\ crud.pc = "idle"
    /\ MenuFree
    /\ crud' = Started("cli_delete", Strip(expense_id), "confirm" :> confirm)
    /\ UNCHANGED <<heap, ROWS, out, call, det, parked>>

CliConfirm == {<<"Y","e","s"," ">>, <<"n","o">>}

CliDelete ==
    \E expense_id \in ExpenseIds, confirm \in CliConfirm :
        Begun < MaxCrud /\ cli_delete(expense_id, confirm)

\* ----------------------------------------------------------------------
\* The steps of add, update and delete after their beginning
\* ----------------------------------------------------------------------
\* the lookup has met a row with the id, at position crud.i: web.py 151,
\* 183-196, 217-218; cli.py 77, 123-124, 172-173
Found ==
    CASE crud.op \in {"add", "cli_add"} -> Done(400)
      [] crud.op = "update" ->
           IF UpdateStatus(crud.data) # 0 THEN Done(UpdateStatus(crud.data))
           ELSE [crud EXCEPT !.pc = "fetch", !.index = crud.i, !.ref = 0]
      [] crud.op = "delete" -> [crud EXCEPT !.pc = "take", !.index = crud.i, !.ref = 0]
      [] OTHER -> [crud EXCEPT !.pc = "show", !.index = crud.i, !.ref = 0]

\* the lookup has reached the end of the list: web.py 153-159, 186-187,
\* 220-221; cli.py 80-102, 126-128, 175-177
NotFound ==
    CASE crud.op = "add" ->
           IF AddStatus(crud.data) # 0 THEN Done(AddStatus(crud.data))
           ELSE [crud EXCEPT !.pc = "append"]
      [] crud.op = "cli_add" ->
           IF AddRefused(crud.data) THEN Done(0) ELSE [crud EXCEPT !.pc = "append"]
      [] OTHER -> Done(404)

\* the iterator of the lookup (any(... for r in state.ROWS), for i, row in
\* enumerate(state.ROWS)) yields the row now at its position, or ends
LookupNext ==
    /\ crud.pc = "next"
    /\ crud' = IF crud.i < Len(ROWS)
               THEN [crud EXCEPT !.pc = "compare", !.i = @ + 1, !.ref = ROWS[crud.i + 1]]
               ELSE NotFound
    /\ UNCHANGED <<heap, ROWS, out, call, det, parked>>

\* r.get('expense_id') == expense_id on the row the iterator yielded
LookupCompare ==
    /\ crud.pc = "compare"
    /\ crud' = IF Get(heap[crud.ref], "expense_id") = crud.id THEN Found
               ELSE [crud EXCEPT !.pc = "next", !.ref = 0]
    /\ UNCHANGED <<heap, ROWS, out, call, det, parked>>

\* state.ROWS.append(data), web.py 161 and cli.py 104
AddAppend ==
    /\ crud.pc = "append"
    /\ LET id == NextId(heap)
       IN  /\ heap' = [x \in DOMAIN heap \cup {id} |->
                          IF x = id THEN crud.data ELSE heap[x]]
           /\ ROWS' = Append(ROWS, id)
    /\ crud' = [crud EXCEPT !.pc = "saving", !.data = NoBody]
    /\ UNCHANGED <<out, call, det, parked>>

\* where the thread goes after state.ROWS[index] has yielded a row
AfterSubscript ==
    CASE crud.pc = "show" -> "items"
      [] crud.pc = "fetch" -> "copy"
      [] crud.pc = "refetch" -> IF crud.op = "update" THEN "apply" ELSE "assign"

\* state.ROWS[index] of web.py 198 and 199 and of cli.py 131, 135, 152 and
\* 180, on a list that has become shorter than the index: IndexError.  The
\* handler answers 500 (207); in the menu line 152 is inside the "try" of
\* line 137, the others are not.
IndexError ==
    IF crud.op = "update" THEN Done(500)
    ELSE IF crud.pc = "refetch" THEN [crud EXCEPT !.pc = "recover", !.ref = 0]
    ELSE Raised

\* state.ROWS[index]: the row now at the index found by the lookup
Subscript ==
    /\ crud.pc \in {"show", "fetch", "refetch"}
    /\ crud' = IF crud.index > Len(ROWS) THEN IndexError
               ELSE [crud EXCEPT !.pc = AfterSubscript, !.ref = ROWS[crud.index]]
    /\ UNCHANGED <<heap, ROWS, out, call, det, parked>>

\* old_data = dict(...) of web.py 198, old_record = dict(...) of cli.py 135:
\* the copy of the row as it is now
UpdateCopy ==
    /\ crud.pc = "copy"
    /\ LET old_data == CopyDict(heap, crud.ref)
       IN  /\ heap' = old_data.heap
           /\ crud' = [crud EXCEPT !.pc = IF DOMAIN crud.data = {} THEN "saving" ELSE "refetch",
                                   !.saved = <<old_data.ref>>, !.ref = 0]
    /\ UNCHANGED <<ROWS, out, call, det, parked>>

\* api_update line 199: .update(data) on the row the subscript yielded
UpdateApply ==
    /\ crud.pc = "apply"
    /\ heap' = [heap EXCEPT ![crud.ref] = DictUpdate(@, crud.data)]
    /\ crud' = [crud EXCEPT !.pc = "saving", !.data = NoBody, !.ref = 0]
    /\ UNCHANGED <<ROWS, out, call, det, parked>>

\* api_delete line 223: deleted_row = state.ROWS[index]
DeleteTake ==
    /\ crud.pc = "take"
    /\ crud' = IF crud.index > Len(ROWS) THEN Done(500)
               ELSE [crud EXCEPT !.pc = "del", !.saved = <<ROWS[crud.index]>>]
    /\ UNCHANGED <<heap, ROWS, out, call, det, parked>>

\* api_delete line 224: del state.ROWS[index]
DeleteDel ==
    /\ crud.pc = "del"
    /\ IF crud.index > Len(ROWS)
       THEN crud' = Done(500) /\ UNCHANGED ROWS
       ELSE /\ ROWS' = RemoveAt(ROWS, crud.index)
            /\ crud' = [crud EXCEPT !.pc = "saving"]
    /\ UNCHANGED <<heap, out, call, det, parked>>

\* options 5 and 6, lines 131 and 180: .items() of the row the subscript
\* yielded; the loop's iterator notes the size of the dict
CliItems ==
    /\ crud.pc = "items"
    /\ crud' = [crud EXCEPT !.pc = "listed", !.size = Cardinality(DOMAIN heap[crud.ref])]
    /\ UNCHANGED <<heap, ROWS, out, call, det, parked>>

\* the loop of lines 131-132 and 180-181 ends: with RuntimeError, outside
\* any "try", when the dict has got another key since; else option 5 goes on
\* to line 135 and option 6 to the question of line 183
CliListed ==
    /\ crud.pc = "listed"
    /\ crud' = IF Cardinality(DOMAIN heap[crud.ref]) # crud.size THEN Raised
               ELSE IF crud.op = "cli_update"
               THEN [crud EXCEPT !.pc = "fetch", !.ref = 0]
               ELSE IF MapSeq(Strip(crud.data["confirm"]), ToLower) # <<"y","e","s">>
               THEN Done(0)
               ELSE [crud EXCEPT !.pc = "pop", !.ref = 0]
    /\ UNCHANGED <<heap, ROWS, out, call, det, parked>>

\* option 5, line 152: [field] = new_value on the row the subscript yielded;
\* then the next prompt, or save_rows after the last
CliAssign ==
    /\ crud.pc = "assign"
    /\ LET field == NextField(crud.data)
           todo == [k \in DOMAIN crud.data \ {field} |-> crud.data[k]]
       IN  /\ heap' = SetItem(heap, crud.ref, field, crud.data[field])
           /\ crud' = [crud EXCEPT !.pc = IF DOMAIN todo = {} THEN "saving" ELSE "refetch",
                                   !.data = todo, !.ref = 0]
    /\ UNCHANGED <<ROWS, out, call, det, parked>>

\* option 6, line 188: deleted_record = state.ROWS.pop(record_index), outside
\* any "try"
CliPop ==
    /\ crud.pc = "pop"
    /\ IF crud.index > Len(ROWS)
       THEN crud' = Raised /\ UNCHANGED ROWS
       ELSE /\ ROWS' = RemoveAt(ROWS, crud.index)
            /\ crud' = [crud EXCEPT !.pc = "saving", !.saved = <<ROWS[crud.index]>>]
    /\ UNCHANGED <<heap, out, call, det, parked>>

\* save_rows, line 28: "if not rows" on the list as it is now; an empty list
\* is not written
SaveCheck ==
    /\ crud.pc = "saving"
    /\ crud' = [crud EXCEPT !.pc = IF ROWS = <<>> THEN "unsaved" ELSE "writing"]
    /\ UNCHANGED <<heap, ROWS, out, call, det, parked>>

\* save_rows wrote the list and returned True (utils.py 32-52); the
\* operation ends
SaveDone ==
    /\ crud.pc = "writing"
    /\ crud' = Done(200)
    /\ UNCHANGED <<heap, ROWS, out, call, det, parked>>

\* save_rows returned False (empty list, or the file could not be written, or
\* a dict grew under the loops of lines 35-46: utils.py 30, 53-55):
\* the operation takes its change back (web.py 166, 204, 229; cli.py 109,
\* 157, 193).  On a list that another thread has shortened meanwhile, pop()
\* of an empty list and the assignment to an index past the end raise
\* IndexError: the handler answers 500, option 4 prints the error, option 5
\* goes to its "except" (159); insert() at an index past the end appends.
SaveFailed ==
    /\ crud.pc \in {"writing", "unsaved"}
    /\ CASE crud.op \in {"add", "cli_add"} ->
              /\ ROWS' = SubSeq(ROWS, 1, Len(ROWS) - 1)
              /\ crud' = Done(500)
         [] crud.op \in {"update", "cli_update"} ->
              /\ ROWS' = IF crud.index > Len(ROWS) THEN ROWS
                         ELSE [ROWS EXCEPT ![crud.index] = crud.saved[1]]
              /\ crud' = IF crud.index > Len(ROWS) /\ crud.op = "cli_update"
                         THEN [crud EXCEPT !.pc = "recover"]
                         ELSE Done(500)
         [] crud.op \in {"delete", "cli_delete"} ->
              /\ ROWS' = InsertAt(ROWS, IF crud.index > Len(ROWS) THEN Len(ROWS) + 1
                                        ELSE crud.index, crud.saved[1])
              /\ crud' = Done(500)
    /\ UNCHANGED <<heap, out, call, det, parked>>

\* option 5, line 160, after an IndexError inside the "try" of line 137:
\* state.ROWS[record_index] = old_record once more, now outside any "try"
CliRecover ==
    /\ crud.pc = "recover"
    /\ IF crud.index > Len(ROWS)
       THEN crud' = Raised /\ UNCHANGED ROWS
       ELSE /\ ROWS' = [ROWS EXCEPT ![crud.index] = crud.saved[1]]
            /\ crud' = Done(0)
    /\ UNCHANGED <<heap, out, call, det, parked>>

\* main.py lines 50-54: the server starts only with a non-empty list
InitWeb == Loaded(WebPool, 1, MaxWebRows)

\* the steps of the handlers of web.py
Handler ==
    \/ AddBegin
    \/ UpdateBegin
    \/ DeleteBegin
    \/ LookupNext
    \/ LookupCompare
    \/ AddAppend
    \/ Subscript
    \/ UpdateCopy
    \/ UpdateApply
    \/ DeleteTake
    \/ DeleteDel
    \/ SaveCheck
    \/ SaveDone
    \/ SaveFailed

NextWeb ==
    \/ DetBegin
    \/ DetNext
    \/ DetRead
    \/ DetCopy
    \/ DetFinish
    \/ DetEmit
    \/ DetSort
    \/ Handler

SpecWeb == InitWeb /\ [][NextWeb]_vars

\* One detector called twice in a row on the same list, nothing else running
InitTwice == Loaded(RecordPool, 0, MaxRows)

NextTwice ==
    \/ CallFirst
    \/ CallAgain
    \/ DetNext
    \/ DetRead
    \/ DetCopy
    \/ DetFinish
    \/ DetEmit
    \/ DetSort

SpecTwice == InitTwice /\ [][NextTwice]_vars

\* Two requests of add, update or delete on two threads of the server.  One
\* thread runs at a time; the interpreter can hand over to the other thread
\* between any two steps of a handler.
Switch ==
    /\ crud' = parked
    /\ parked' = crud
    /\ UNCHANGED <<heap, ROWS, out, call, det>>

NextCrud ==
    \/ Handler
    \/ Switch

SpecCrud == InitWeb /\ [][NextCrud]_vars

\* the steps of options 4, 5 and 6 of the menu that its own thread can reach
Menu ==
    \/ CliAdd
    \/ CliUpdate
    \/ CliDelete
    \/ CliItems
    \/ CliListed
    \/ CliAssign
    \/ CliPop

\* Requests of add, update and delete one after the other, through the web
\* API and through the menu, on a list loaded from a file in which every
\* expense_id occurs once
DistinctIds(h, rows) ==
    \A i, j \in 1..Len(rows) :
        i # j => Get(h[rows[i]], "expense_id") # Get(h[rows[j]], "expense_id")

InitIds == Loaded(WebPool, 1, MaxWebRows) /\ DistinctIds(heap, ROWS)

NextIds ==
    \/ Handler
    \/ Menu

SpecIds == InitIds /\ [][NextIds]_vars

\* An option of the menu while a request thread of the server started with
\* option 7 (cli.py 200) is still at work: the two interleave like two
\* requests, and line 160 comes within reach
NextMenu ==
    \/ Handler
    \/ Menu
    \/ CliRecover
    \/ Switch

SpecMenu == InitIds /\ [][NextMenu]_vars

\* the columns of the record that the detector of the call reads
ColumnsRead(rec, n) ==
    LET cols == {ReadCols(call.op, call.arg)[j] : j \in 1..n} \cap DOMAIN rec
    IN  [c \in cols |-> rec[c]]

\* C9 as stated: within one detector call of the web layer the detector sees
\* the list as it was when the call began: what its loop has read so far are
\* the columns of the first records of that list, with the values they had
\* then, and a call that ran to the end has read all of them, whatever add,
\* update or delete requests ran meanwhile.
C9_DetectorSeesStableSnapshot ==
    det.pc # "idle" =>
        /\ Len(det.seen) <= Len(call.rows)
        /\ \A i \in 1..Len(det.seen) :
             det.seen[i] = ColumnsRead(call.rows[i], Len(ReadCols(call.op, call.arg)))
        /\ det.pc = "read" =>
             /\ det.i <= Len(call.rows)
             /\ det.got = ColumnsRead(call.rows[det.i], det.col)
        /\ (det.pc = "done" /\ out.kind # "raise") => Len(det.seen) = Len(call.rows)

\* ----------------------------------------------------------------------
\* Claims about find_duplicate_invoices
\* ----------------------------------------------------------------------
Count(s, x) == Cardinality({i \in 1..Len(s) : s[i] = x})
SameBag(a, b) == /\ Len(a) = Len(b)
                 /\ \A i \in 1..Len(a) : Count(a, a[i]) = Count(b, a[i])
Without(r, keys) == [k \in DOMAIN r \ keys |-> r[k]]
SelectIdx(n, P(_)) ==
    LET idx == {i \in 1..n : P(i)}
        RECURSIVE Asc(_)
        Asc(S) == IF S = {} THEN <<>>
                  ELSE LET m == CHOOSE x \in S : \A y \in S : x <= y
                       IN  <<m>> \o Asc(S \ {m})
    IN  Asc(idx)

DupCalled == call.op = "find_duplicate_invoices" /\ out.kind = "list"
Findings == Contents(heap, out.refs)
DupTags == {"_reason", "_dup_count"}

\* input position i shares its normalised key with another input position
SharesKey(in, i, im) ==
    \E j \in 1..Len(in) : j # i /\ DupKey(in[j], im) = DupKey(in[i], im)

\* the tuple the findings are claimed to be sorted by: the normalised
\* merchant (the empty string when the merchant is excluded), the normalised
\* invoice, the normalised amount
ClaimedSortKey(x, im) ==
    << IF im THEN normalize_text(Get(x, merchant_col)) ELSE <<>>,
       normalize_text(Get(x, invoice_col)),
       normalize_amount(Get(x, amount_col)) >>

\* C1: find_duplicate_invoices returns a finding for a record if and only if
\* another input record has the same normalised key: the findings, apart from
\* the two keys the detector writes, are exactly the input records that share
\* their key (each once, none with a unique key), and each is tagged
\* _reason = "duplicate".
C1_DuplicateIffSharedKey ==
    call.op = "find_duplicate_invoices" =>
        LET in == call.rows
            im == call.arg.include_merchant
            members == SelectIdx(Len(in), LAMBDA i : SharesKey(in, i, im))
        IN  /\ out.kind = "list"
            /\ \A i \in 1..Len(Findings) : Get(Findings[i], "_reason") = ReasonDuplicate
            /\ SameBag([i \in 1..Len(Findings) |-> Without(Findings[i], DupTags)],
                       [i \in 1..Len(members) |-> Without(in[members[i]], DupTags)])

\* C1 witness: a call whose input holds a cluster and also a record with a
\* unique key, which is absent from the output
C1_Witness ==
    /\ DupCalled
    /\ Len(Findings) >= 2
    /\ \E i \in 1..Len(call.rows) : ~SharesKey(call.rows, i, call.arg.include_merchant)

\* C2: every finding's _dup_count is the number of input records with its
\* normalised key, and the output ascends by (normalised merchant or "",
\* normalised invoice, normalised amount).
C2_DupCountAndSorted ==
    DupCalled =>
        LET in == call.rows
            im == call.arg.include_merchant
            f  == Findings
        IN  /\ \A i \in 1..Len(f) :
                 Get(f[i], "_dup_count") =
                    IntVal(Cardinality({j \in 1..Len(in) : DupKey(in[j], im) = DupKey(f[i], im)}))
            /\ \A i, j \in 1..Len(f) :
                 i < j => ~TupleLess(ClaimedSortKey(f[j], im), ClaimedSortKey(f[i], im))

\* C2 witness: two clusters in the output, the one that sorts last having
\* been met first in the input
C2_Witness ==
    /\ DupCalled
    /\ Len(Findings) >= 4
    /\ LET im == call.arg.include_merchant
           f == Findings
       IN  /\ TupleLess(ClaimedSortKey(f[1], im), ClaimedSortKey(f[Len(f)], im))
           /\ DupKey(call.rows[1], im) = DupKey(f[Len(f)], im)

\* the findings' contents for the input contents in, rearranged by p
DupOutputOf(in, p, im) ==
    LET h == [i \in 1..Len(in) |-> in[p[i]]]
        r == find_duplicate_invoices(h, [i \in 1..Len(in) |-> i], im)
    IN  Contents(r.heap, r.out)

\* C10 as stated: every permutation of the input gives the same sequence of
\* findings.
C10_OrderIndependent ==
    DupCalled =>
        \A p \in Permutations(1..Len(call.rows)) :
            DupOutputOf(call.rows, p, call.arg.include_merchant) = Findings

\* C10 amended: every permutation of the input gives the same findings as a
\* multiset and the same sequence of sort keys and _dup_count values; findings
\* with equal sort keys keep the relative order their records have in the
\* input.
C10_OrderUpToTies ==
    DupCalled =>
        LET in == call.rows
            im == call.arg.include_merchant
            f  == Findings
        IN  /\ \A p \in Permutations(1..Len(in)) :
                 LET g == DupOutputOf(in, p, im)
                 IN  /\ SameBag(g, f)
                     /\ \A i \in 1..Len(f) :
                          /\ ClaimedSortKey(g[i], im) = ClaimedSortKey(f[i], im)
                          /\ Get(g[i], "_dup_count") = Get(f[i], "_dup_count")
            /\ \A i \in 1..Len(f) :
                 LET k == ClaimedSortKey(f[i], im)
                     fk == SelectIdx(Len(f), LAMBDA j : ClaimedSortKey(f[j], im) = k)
                     ik == SelectIdx(Len(in), LAMBDA j : ClaimedSortKey(in[j], im) = k)
                 IN  [j \in 1..Len(fk) |-> Without(f[fk[j]], DupTags)]
                       = [j \in 1..Len(ik) |-> Without(in[ik[j]], DupTags)]

\* C10 witness: two clusters in the output, the one that sorts last having
\* been met first in the input, and in one of them two members written
\* differently, met in the input in the opposite order of their raw merchant
\* text
C10_Witness ==
    /\ DupCalled
    /\ call.arg.include_merchant
    /\ Len(Findings) = 4
    /\ TupleLess(ClaimedSortKey(Findings[1], TRUE), ClaimedSortKey(Findings[4], TRUE))
    /\ DupKey(call.rows[1], TRUE) = DupKey(Findings[4], TRUE)
    /\ \E i \in 1..Len(Findings) - 1 :
         /\ ClaimedSortKey(Findings[i], TRUE) = ClaimedSortKey(Findings[i + 1], TRUE)
         /\ StrLess(PyStr(Get(Findings[i + 1], merchant_col)),
                    PyStr(Get(Findings[i], merchant_col)))

\* ----------------------------------------------------------------------
\* Claims about flag_threshold
\* ----------------------------------------------------------------------
\* the finding the claim expects for one input record, <<>> when none
ExpectedThreshold(rec, limit, buffer) ==
    LET amt == parse_float(Get(rec, amount_col))
    IN  IF amt = NoValue THEN <<>>
        ELSE IF Signed(amt) > limit THEN <<DictSet(rec, "_reason", ReasonOverLimit)>>
        ELSE IF limit - buffer < Signed(amt) /\ Signed(amt) <= limit
             THEN <<DictSet(rec, "_reason", ReasonNearLimit)>>
        ELSE <<>>

FlatMap(s, F(_)) ==
    LET RECURSIVE From(_)
        From(i) == IF i > Len(s) THEN <<>> ELSE F(s[i]) \o From(i + 1)
    IN  From(1)

\* C3 as stated: flag_threshold emits, in input order, exactly one over_limit finding
\* for each record whose parsed amount exceeds limit, exactly one near_limit
\* finding for each whose amount lies in (limit - buffer, limit], and nothing
\* for the others (unparseable amounts included); an amount equal to limit is
\* near_limit.
C3_ThresholdClassification ==
    call.op = "flag_threshold" =>
        /\ out.kind = "list"
        /\ Findings = FlatMap(call.rows,
                LAMBDA rec : ExpectedThreshold(rec, call.arg.limit, call.arg.buffer))

\* ----------------------------------------------------------------------
\* Claims about all detectors
\* ----------------------------------------------------------------------
Called == call.op # "none"
ReturnedList == Called /\ out.kind = "list"

\* C4: no detector changes its input: after a call the list holds the same
\* records in the same order, each with the keys and values it had before,
\* and every finding is an object of its own, distinct from every input
\* record and from the other findings.
C4_InputUnchanged ==
    Called =>
        /\ Contents(heap, ROWS) = call.rows
        /\ out.kind = "list" =>
             /\ Range(out.refs) \cap Range(ROWS) = {}
             /\ \A i, j \in 1..Len(out.refs) : i # j => out.refs[i] # out.refs[j]

\* C4 witness: a call that returned findings for both of two input records
C4_Witness ==
    /\ ReturnedList
    /\ Len(ROWS) = 2
    /\ Len(out.refs) = 2

\* the keys a detector writes into its findings
MetaKeys(op) ==
    CASE op = "find_duplicate_invoices" -> {"_reason", "_dup_count"}
      [] op \in {"flag_suspicious_keywords", "flag_discrepancies"} -> {"_reason", "_details"}
      [] OTHER -> {"_reason"}

\* the _reason values a detector writes
Reasons(op) ==
    CASE op = "find_duplicate_invoices" -> {ReasonDuplicate}
      [] op = "flag_weekends" -> {ReasonWeekend}
      [] op = "flag_threshold" -> {ReasonOverLimit, ReasonNearLimit}
      [] op = "flag_suspicious_keywords" -> {ReasonSuspicious}
      [] op = "flag_discrepancies" -> {ReasonDiscrepancy}
      [] OTHER -> {}

\* C5 as stated: every finding carries every column of the input record it
\* was derived from with the input's value, and the detector's metadata keys,
\* also when the input record has a column named like a metadata key.
C5_AllColumnsVerbatim ==
    ReturnedList =>
        \A i \in 1..Len(Findings) :
            \E j \in 1..Len(call.rows) :
                /\ DOMAIN Findings[i] = DOMAIN call.rows[j] \cup MetaKeys(call.op)
                /\ \A k \in DOMAIN call.rows[j] : Findings[i][k] = call.rows[j][k]

\* C5 amended: every finding carries every column of the input record it was
\* derived from, other than the metadata keys its detector writes, with the
\* input's raw value, and it carries the detector's metadata keys with the
\* detector's values; an input column named like one of these keys is
\* overwritten in the finding.
C5_ColumnsVerbatimExceptMeta ==
    ReturnedList =>
        \A i \in 1..Len(Findings) :
            /\ Findings[i]["_reason"] \in Reasons(call.op)
            /\ \E j \in 1..Len(call.rows) :
                /\ DOMAIN Findings[i] = DOMAIN call.rows[j] \cup MetaKeys(call.op)
                /\ \A k \in DOMAIN call.rows[j] \ MetaKeys(call.op) :
                       Findings[i][k] = call.rows[j][k]

\* C5 witness: a finding derived from a record that has a _reason column of
\* its own, and a finding whose amount is not in its normalised form
C5_Witness ==
    /\ ReturnedList
    /\ \E i \in 1..Len(Findings) : \E j \in 1..Len(call.rows) :
         /\ "_reason" \in DOMAIN call.rows[j]
         /\ Without(Findings[i], MetaKeys(call.op)) = Without(call.rows[j], MetaKeys(call.op))
         /\ Findings[i]["_reason"] # call.rows[j]["_reason"]
    /\ \E i \in 1..Len(Findings) :
         Get(Findings[i], amount_col) # normalize_amount(Get(Findings[i], amount_col))

\* C6 as stated: no core function raises, whatever the records hold (absent
\* column, empty string, None).
C6_NeverRaises == Called => out.kind # "raise"

\* ----------------------------------------------------------------------
\* Claims about calculate_benford_stats
\* ----------------------------------------------------------------------
BenfordCalled == call.op = "calculate_benford_stats"
IsErrorResult(v) == DOMAIN v = {"error"}
IsReport(v) == DOMAIN v = {"total_analyzed", "stats", "is_suspicious", "max_deviation_pct"}

\* the leading digit of a record: the first character of the raw amount text
\* that is one of "1".."9"; 0 when the text is missing or has none
RECURSIVE FirstNonzero(_)
FirstNonzero(s) ==
    IF s = <<>> THEN 0
    ELSE IF In19(Head(s)) THEN DigitVal(Head(s))
    ELSE FirstNonzero(Tail(s))
LeadingDigit(rec) ==
    IF amount_col \in DOMAIN rec /\ IsStr(rec[amount_col])
    THEN FirstNonzero(rec[amount_col]) ELSE 0

YieldingRows(in) == {i \in 1..Len(in) : LeadingDigit(in[i]) # 0}

\* C7 as stated: calculate_benford_stats returns the error result exactly
\* when no input record yields a leading digit, and otherwise a report with
\* total_analyzed >= 1 and nine entries for the digits 1..9 in ascending
\* order, is_suspicious, max_deviation_pct and no "error" key.
C7_ErrorIffNoLeadingDigit ==
    BenfordCalled =>
        /\ out.kind = "dict"
        /\ IF YieldingRows(call.rows) = {}
           THEN IsErrorResult(out.value)
           ELSE /\ IsReport(out.value)
                /\ out.value.total_analyzed >= 1
                /\ Len(out.value.stats) = 9
                /\ \A d \in 1..9 : out.value.stats[d].digit = d
                /\ out.value.is_suspicious \in BOOLEAN

\* C8: in every report the actual_count values of the nine digits add up to
\* total_analyzed, and total_analyzed is the number of input records that
\* yield a leading digit.
C8_CountsSumToTotal ==
    (BenfordCalled /\ out.kind = "dict" /\ IsReport(out.value)) =>
        LET RECURSIVE Sum(_)
            Sum(d) == IF d = 0 THEN 0 ELSE out.value.stats[d].actual_count + Sum(d - 1)
        IN  /\ Sum(9) = out.value.total_analyzed
            /\ out.value.total_analyzed = Cardinality(YieldingRows(call.rows))

\* C8 witness: a report over an input in which one record yields a leading
\* digit and another does not
C8_Witness ==
    /\ BenfordCalled /\ out.kind = "dict" /\ IsReport(out.value)
    /\ out.value.total_analyzed = 1
    /\ Len(call.rows) = 2

\* ----------------------------------------------------------------------
\* Idempotence of the detectors
\* ----------------------------------------------------------------------
\* what a call produced, by value: the findings' keys and values in order,
\* the Benford result, or the exception raised
Outcome(h, o) ==
    IF o.kind = "list" THEN [kind |-> "list", value |-> Contents(h, o.refs)] ELSE o

\* the list holds what it held before the first of the two calls
SnapshotUnmutated == Contents(heap, ROWS) = call.rows

\* the second of two calls in a row has returned
Repeated == det.n = 2 /\ det.pc = "done"

\* C11: a detector called a second time with the same parameters, on the
\* list that is as it was before the first call, returns what the first call
\* returned: the same findings with the same keys and values in the same
\* order, or the same Benford result.
C11_SecondRunSameOutput ==
    (Repeated /\ SnapshotUnmutated) => Outcome(heap, out) = Outcome(heap, call.first)

\* C11 witness: a first call that returned two findings, still held by the
\* caller, and a second call that has returned two findings, other objects
\* than the first two, with their contents
C11_Witness ==
    /\ Repeated /\ SnapshotUnmutated
    /\ out.kind = "list" /\ call.first.kind = "list"
    /\ Len(out.refs) = 2 /\ Len(call.first.refs) = 2
    /\ Range(out.refs) \cap Range(call.first.refs) = {}
    /\ Findings = Contents(heap, call.first.refs)

\* ----------------------------------------------------------------------
\* Claims about flag_weekends
\* ----------------------------------------------------------------------
\* the date text of a record, trimmed: empty for an absent column, None or ""
TrimmedDate(rec) ==
    IF date_col \in DOMAIN rec /\ IsStr(rec[date_col]) THEN Strip(rec[date_col]) ELSE <<>>

\* the positions in the format list of the formats that accept the text
AcceptingFormats(s) == {k \in 1..Len(date_fmts) : strptime(s, date_fmts[k]) # NoValue}
FirstAccepted(s) ==
    strptime(s, date_fmts[CHOOSE k \in AcceptingFormats(s) :
                                 \A j \in AcceptingFormats(s) : k <= j])

\* Saturday or Sunday, counted in days from 2024-01-06, a Saturday
IsSaturdayOrSunday(dt) ==
    (Ordinal(dt.y, dt.m, dt.d) - Ordinal(2024, 1, 6)) % 7 \in {0, 1}

\* the finding the claim expects for one input record, <<>> when none
ExpectedWeekend(rec) ==
    IF /\ TrimmedDate(rec) # <<>>
       /\ AcceptingFormats(TrimmedDate(rec)) # {}
       /\ IsSaturdayOrSunday(FirstAccepted(TrimmedDate(rec)))
    THEN <<DictSet(rec, "_reason", ReasonWeekend)>>
    ELSE <<>>

\* C12: flag_weekends returns, in input order, exactly one finding tagged
\* "weekend" for each record whose trimmed date is non-empty, is accepted by
\* some format of the list and, parsed under the first format that accepts
\* it, falls on a Saturday or Sunday; the other records (empty, unparseable
\* or weekday dates) yield nothing.
C12_WeekendSubsequence ==
    call.op = "flag_weekends" =>
        /\ out.kind = "list"
        /\ Findings = FlatMap(call.rows, ExpectedWeekend)

\* C12 witness: a call on two records that flags one whose date is accepted
\* by a later format only and drops one that is not on a weekend
C12_Witness ==
    /\ call.op = "flag_weekends" /\ out.kind = "list"
    /\ Len(call.rows) = 2 /\ Len(Findings) = 1
    /\ 1 \notin AcceptingFormats(TrimmedDate(Findings[1]))
    /\ AcceptingFormats(TrimmedDate(Findings[1])) # {}
    /\ \E j \in 1..2 : /\ AcceptingFormats(TrimmedDate(call.rows[j])) # {}
                       /\ ExpectedWeekend(call.rows[j]) = <<>>

\* ----------------------------------------------------------------------
\* Claims about flag_discrepancies
\* ----------------------------------------------------------------------
\* both amounts of a record parse
BothParse(rec) ==
    /\ parse_float(Get(rec, incurred_col)) # NoValue
    /\ parse_float(Get(rec, paid_col)) # NoValue

\* the absolute difference of the two amounts of a record as decimal numbers,
\* in units of 1/Scale
Gap(rec) ==
    Abs(Signed(parse_float(Get(rec, incurred_col)))
        - Signed(parse_float(Get(rec, paid_col))))

\* the finding the claim expects for one input record, its _details left
\* out; <<>> when none
ExpectedDiscrepancy(rec) ==
    IF BothParse(rec) /\ Gap(rec) > Scale \div 100
    THEN <<Without(DictSet(rec, "_reason", ReasonDiscrepancy), {"_details"})>>
    ELSE <<>>

\* _details names the gap of the finding to two decimal places
DetailsGiveGap(f) ==
    \E h \in {Gap(f) \div (Scale \div 100), Gap(f) \div (Scale \div 100) + 1} :
        /\ f["_details"] = DiffText(h)
        /\ 2 * Abs(h * (Scale \div 100) - Gap(f)) <= Scale \div 100

\* C13 as stated: flag_discrepancies emits a finding tagged "discrepancy",
\* with the absolute gap to two decimals in _details, for exactly the records
\* whose two amounts both parse and differ by strictly more than 0.01; a
\* record with an amount empty, missing or unparseable, or with a difference
\* of at most 0.01, yields nothing.
C13_FlaggedIffGapExceedsCent ==
    call.op = "flag_discrepancies" =>
        /\ out.kind = "list"
        /\ [i \in 1..Len(Findings) |-> Without(Findings[i], {"_details"})]
               = FlatMap(call.rows, ExpectedDiscrepancy)
        /\ \A i \in 1..Len(Findings) : DetailsGiveGap(Findings[i])

\* ----------------------------------------------------------------------
\* Claims about flag_suspicious_keywords
\* ----------------------------------------------------------------------
\* the (column, term) pairs numbered column by column in the configured
\* order and, within a column, in vocabulary order
PairColumn(k) == check_cols[((k - 1) \div Len(SUSPICIOUS_TERMS)) + 1]
PairTerm(k) == SUSPICIOUS_TERMS[((k - 1) % Len(SUSPICIOUS_TERMS)) + 1]
NormalizedColumn(rec, col) ==
    normalize_text(IF col \in DOMAIN rec THEN rec[col] ELSE <<>>)
IsSubstring(term, text) ==
    \E i \in 1..Len(text) : i + Len(term) - 1 <= Len(text)
                            /\ \A j \in 1..Len(term) : text[i + j - 1] = term[j]
IsHit(rec, k) == IsSubstring(PairTerm(k), NormalizedColumn(rec, PairColumn(k)))
Hits(rec) ==
    SelectIdx(Len(check_cols) * Len(SUSPICIOUS_TERMS), LAMBDA k : IsHit(rec, k))

\* "<term> (in <column>)" for each hit, joined by ", "
RECURSIVE ListedHits(_, _)
ListedHits(hits, n) ==
    IF n = 0 THEN <<>>
    ELSE (IF n = 1 THEN <<>> ELSE ListedHits(hits, n - 1) \o <<",", " ">>)
         \o PairTerm(hits[n]) \o <<" ", "(", "i", "n", " ">>
         \o ColumnText[PairColumn(hits[n])] \o <<")">>

\* the finding the claim expects for one input record, <<>> when none
ExpectedSuspicious(rec) ==
    IF Hits(rec) = <<>> THEN <<>>
    ELSE <<DictSet(DictSet(rec, "_reason", ReasonSuspicious),
                   "_details", ListedHits(Hits(rec), Len(Hits(rec))))>>

\* C14: flag_suspicious_keywords returns, in input order, exactly one finding
\* for each record in which some vocabulary term is a substring of the
\* normalized value of some configured column, and none for the others; the
\* finding's _details lists "<term> (in <column>)" once per hit, by column in
\* the configured order and within a column by term in vocabulary order,
\* joined by ", ".
C14_OneFindingPerHitRecord ==
    call.op = "flag_suspicious_keywords" =>
        /\ out.kind = "list"
        /\ Findings = FlatMap(call.rows, ExpectedSuspicious)

\* C14 witness: a call on two records, one with two hits in one column and
\* one with hits in two columns whose terms stand in the other order in the
\* vocabulary
C14_Witness ==
    /\ call.op = "flag_suspicious_keywords" /\ out.kind = "list"
    /\ Len(Findings) = 2
    /\ \E i \in 1..2 : /\ Len(Hits(call.rows[i])) = 2
                       /\ PairColumn(Hits(call.rows[i])[1]) = PairColumn(Hits(call.rows[i])[2])
    /\ \E i \in 1..2 : /\ Len(Hits(call.rows[i])) = 2
                       /\ PairColumn(Hits(call.rows[i])[1]) # PairColumn(Hits(call.rows[i])[2])
                       /\ (Hits(call.rows[i])[1] - 1) % Len(SUSPICIOUS_TERMS)
                            > (Hits(call.rows[i])[2] - 1) % Len(SUSPICIOUS_TERMS)

\* the input records whose leading digit is d
RowsLeadingWith(in, d) == {i \in 1..Len(in) : LeadingDigit(in[i]) = d}

\* C15 as stated: calculate_benford_stats counts every record under the
\* first nonzero digit character of its raw amount text, scanned left to
\* right with non-digits and zeros skipped, and a record whose amount text
\* has no nonzero digit changes no count: the count reported for each digit
\* d is the number of input records whose leading digit is d.
C15_CountedUnderLeadingDigit ==
    BenfordCalled =>
        /\ out.kind = "dict"
        /\ IsErrorResult(out.value) => YieldingRows(call.rows) = {}
        /\ IsReport(out.value) =>
             \A d \in 1..9 : out.value.stats[d].actual_count
                               = Cardinality(RowsLeadingWith(call.rows, d))

\* ----------------------------------------------------------------------
\* Claims about add, update and delete
\* ----------------------------------------------------------------------
\* C16 as stated: when save_rows fails, the list the operation leaves behind
\* when it finishes has the length, the order and the record contents it had
\* immediately before the operation started, also when a second request ran
\* in between.
C16_FailedSaveRestoresList ==
    [][(SaveFailed /\ crud'.pc = "idle") => Contents(heap', ROWS') = crud.before]_vars

\* C17 as stated: on a list that started with pairwise distinct expense_id
\* values, after any sequence of add, update and delete operations, saved or
\* not, no two records of the in-memory list have the same expense_id.
C17_IdsStayUnique ==
    crud.pc = "idle" => DistinctIds(heap, ROWS)

====
